---- MODULE Spec2Model ----
(***************************************************************************)
(* A model of the coordination engine of the database load balancer:       *)
(* the node registry with its read rotation, the selection strategies,     *)
(* the health checker with the failover and recovery observers, the        *)
(* per-node command log, and the read path, the write path and the         *)
(* transaction scope of the proxy engine; with them the SQL classifier,    *)
(* the execution of the commands and the event bus on their own.           *)
(***************************************************************************)
EXTENDS Integers, Sequences, FiniteSets, TLC

\* ------------------------------------------------------------------ bounds
\* Longest command log built in the sequential command-log specification.
MaxLog == 3
\* Number of client writes issued in the concurrent specification.
MaxWrites == 1
\* Largest weight given to a node of a strategy's list.
MaxWeight == 3
\* Number of consecutive picks asked of the weighted strategy.
MaxPicks == 10
\* Latency samples recorded per node, and the longest elapsed time.
MaxSamples == 2
MaxElapsed == 2
\* Number of client calls (writes, transaction scopes) made one after
\* another in the sequential write specification.
MaxCalls == 1
\* values a column of a command takes: 1..MaxVal
MaxVal == 2
\* Longest statement given to the SQL classifier, in tokens, and the
\* number of comments or blanks put into its second spelling.
MaxTokens == 3
MaxEdits == 1
\* Number of events handed to the failover observer on its own.
MaxEvents == 3
\* Number of add_observer calls made for the observers of a Subject.
MaxRegs == 3

\* --------------------------------------------------------- configuration
\* The registry iterates in insertion order (a dict): db1, db2.
NodeOrder == <<"db1", "db2">>
Nodes == {NodeOrder[i] : i \in 1..Len(NodeOrder)}
\* Weights as in a database_config with one heavier node.
Weight == [n \in Nodes |-> IF n = "db1" THEN 2 ELSE 1]
\* The log the sequential command-log specification works on.
LogNode == "db1"
\* The list of NodeInfo objects the strategy tests build (make_nodes).
PoolOrder == <<"db1", "db2", "db3">>
PoolNames == {PoolOrder[i] : i \in 1..Len(PoolOrder)}

VARIABLES
    nodes,        \* LoadBalancer.nodes: name -> [enabled, weight]
    rr_iter,      \* LoadBalancer._rr_iter: [items, pos]; items = <<>> is None
    up,           \* environment: the backend of a node answers
    last_status,  \* HealthChecker.last_status
    hc,           \* the health thread: [pc, i, k]
    commands,     \* CommandLog.commands, per node
    file,         \* the backing file of each log: [exists, data]
    executed,     \* per node, the commands run against its backend (by a
                  \* broadcast or by a replay)
    wr,           \* the client write in progress (ProxyConnection.execute)
    nwrites,      \* client writes issued so far
    journaled,    \* history: per node, the commands journaled for it
    strat,        \* strategy objects: [rr_index, wrr_index, wrr_counter]
    picked,       \* history: the last routing or pick since the registry
                  \* last changed: [op, list, result]
    pass,         \* history of run_check: per node the status before its
                  \* last probe and the probe's result; the events of
                  \* the current pass; whether every probe of the pass
                  \* so far repeated the one of the pass before
    recov,        \* history: what the last recovery of each node did
    logop         \* history of the last command-log operation of the
                  \* sequential specification: [op, added (the commands
                  \* added since the log was last drained), drained,
                  \* before (the log before the operation), observed (what
                  \* the engine was given), raised, failedAt]
VARIABLES
    pool,         \* a list of NodeInfo objects handed to a strategy:
                  \* name -> [enabled, weight, total_time, query_count]
    stats,        \* the latency fields of the registry's NodeInfo objects:
                  \* name -> [total_time, query_count]
    req           \* history: the last request served (a read, a write, a
                  \* transaction scope) or the picks made so far
VARIABLES
    observers     \* Subject._observers of the health checker

vars == <<nodes, rr_iter, up, last_status, hc, commands, file, executed,
          wr, nwrites, journaled, strat, picked, pass,
          recov, logop, pool, stats, req, observers>>

\* ------------------------------------------------------------- commands
\* replication/commands.py: the three command classes as tagged records.
Insert(table, values) ==
    [cls |-> "Insert", table |-> table, values |-> values]
Update(table, set_values, where) ==
    [cls |-> "Update", table |-> table, set_values |-> set_values,
     where |-> where]
Delete(table, where) ==
    [cls |-> "Delete", table |-> table, where |-> where]

\* Command.serialize of each class: the dict written to the JSON file.
serialize(cmd) ==
    CASE cmd.cls = "Insert" ->
            [type |-> "insert", table |-> cmd.table, values |-> cmd.values]
      [] cmd.cls = "Update" ->
            [type |-> "update", table |-> cmd.table, set |-> cmd.set_values,
             where |-> cmd.where]
      [] cmd.cls = "Delete" ->
            [type |-> "delete", table |-> cmd.table, where |-> cmd.where]

\* CommandLog.deserialize: dispatch on the type tag.
deserialize(data) ==
    CASE data.type = "insert" -> Insert(data.table, data.values)
      [] data.type = "update" -> Update(data.table, data.set, data.where)
      [] data.type = "delete" -> Delete(data.table, data.where)

\* params.pop("_command_obj", None) when the caller passed no Command.
NoCommand == [cls |-> "None"]

\* The commands the demo endpoints build for user u (POST, PUT, DELETE).
ClientCommand(op, u) ==
    CASE op = "POST"   -> Insert("users", [name |-> u])
      [] op = "PUT"    -> Update("users", [name |-> u], [id |-> u])
      [] op = "DELETE" -> Delete("users", [id |-> u])
Ops == {"POST", "PUT", "DELETE"}
\* The u-th client request of the concurrent specification: the demo's
\* create, update, delete in turn.
OpOf(u) == CASE u % 3 = 1 -> "POST" [] u % 3 = 2 -> "PUT" [] OTHER -> "DELETE"

\* The commands of the sequential command-log specification
\* (test_recovery_manager.py: an Insert, an Update and a Delete on user 1).
CmdPool == {ClientCommand(op, 1) : op \in Ops}

\* Python's {**a, **b}: the keys of both dicts, b's value where both
\* have the key.
Merge(a, b) ==
    [k \in (DOMAIN a) \cup (DOMAIN b) |-> IF k \in DOMAIN b THEN b[k] ELSE a[k]]

\* A statement handed to conn.execute: text(...) with a placeholder :c for
\* each column c named in its SET (or VALUES) part and in its WHERE part,
\* and the dict that binds the placeholders.
Statement(verb, table, set_cols, where_cols, params) ==
    [verb |-> verb, table |-> table, set |-> set_cols, where |-> where_cols,
     params |-> params]

\* What engine.begin() does with an engine: "ok" opens a transaction,
\* "down" raises OperationalError, None has no begin().
begin_error(engine) ==
    IF engine = "None" THEN "AttributeError" ELSE "OperationalError"

\* Insert.execute.  Yields [sent (the statements executed), error].
Insert_execute(cmd, engine) ==
    IF engine = "None" THEN [sent |-> <<>>, error |-> "none"]
    ELSE IF engine # "ok" THEN [sent |-> <<>>, error |-> begin_error(engine)]
    ELSE [sent |-> <<Statement("INSERT", cmd.table, DOMAIN cmd.values, {},
                               cmd.values)>>,
          error |-> "none"]

\* Update.execute
Update_execute(cmd, engine) ==
    IF engine # "ok" THEN [sent |-> <<>>, error |-> begin_error(engine)]
    ELSE [sent |-> <<Statement("UPDATE", cmd.table, DOMAIN cmd.set_values,
                               DOMAIN cmd.where,
                               Merge(cmd.set_values, cmd.where))>>,
          error |-> "none"]

\* Delete.execute
Delete_execute(cmd, engine) ==
    IF engine # "ok" THEN [sent |-> <<>>, error |-> begin_error(engine)]
    ELSE [sent |-> <<Statement("DELETE", cmd.table, {}, DOMAIN cmd.where,
                               cmd.where)>>,
          error |-> "none"]

\* command.execute(engine), dispatched on the class of the command.
execute(cmd, engine) ==
    CASE cmd.cls = "Insert" -> Insert_execute(cmd, engine)
      [] cmd.cls = "Update" -> Update_execute(cmd, engine)
      [] cmd.cls = "Delete" -> Delete_execute(cmd, engine)

\* ----------------------------------------------------------- CommandLog
NoFile == [exists |-> FALSE, data |-> <<>>]

\* A save that writes the sequence as it was before the last append.
save_stale(cmds) ==
    [exists |-> TRUE,
     data |-> [i \in 1..(Len(cmds) - 1) |-> serialize(cmds[i])]]

\* CommandLog.save: the whole in-memory sequence, serialised, replaces the
\* file content.
save(cmds) ==
    [exists |-> TRUE, data |-> [i \in 1..Len(cmds) |-> serialize(cmds[i])]]

\* CommandLog.__init__: load the file if it exists, else start empty.
load(f) ==
    IF f.exists THEN [i \in 1..Len(f.data) |-> deserialize(f.data[i])]
    ELSE <<>>

\* open(self.path, "w"), the first half of save: the file exists and is
\* cut to zero bytes, which is not a JSON document.
open_w == [exists |-> TRUE, data |-> <<>>, torn |-> TRUE]

\* CommandLog.__init__ on any file: json.load raises JSONDecodeError on a
\* file that is not a JSON document, and only FileNotFoundError is caught.
\* Yields [commands, error].
CommandLog_init(f) ==
    IF "torn" \in DOMAIN f
    THEN [commands |-> <<>>, error |-> "JSONDecodeError"]
    ELSE [commands |-> load(f), error |-> "none"]

\* An add that inserts at the front of the log.
add_front(cmds, c) ==
    LET new == <<c>> \o cmds
    IN  [commands |-> new, file |-> save(new)]

\* CommandLog.add: append, then save.  Yields [commands, file].
add(cmds, c) ==
    LET new == Append(cmds, c)
    IN  [commands |-> new, file |-> save(new)]

\* Position of the first command of cmds that the engine fails (0: none).
FirstFailure(cmds, bad) ==
    IF \E i \in 1..Len(cmds) : cmds[i] \in bad
    THEN CHOOSE i \in 1..Len(cmds) :
            /\ cmds[i] \in bad
            /\ \A j \in 1..(i - 1) : cmds[j] \notin bad
    ELSE 0

\* CommandLog.replay against an engine that fails the commands in bad:
\* execute in order; an exception leaves the loop (and the method) at once;
\* only after the whole loop is the log cleared and saved.
\* Yields [commands, file, observed, raised, failedAt].
replay(cmds, f, bad) ==
    LET k == FirstFailure(cmds, bad)
    IN  IF k = 0
        THEN [commands |-> <<>>, file |-> save(<<>>), observed |-> cmds,
              raised |-> FALSE, failedAt |-> 0]
        ELSE [commands |-> cmds, file |-> f,
              observed |-> SubSeq(cmds, 1, k - 1),
              raised |-> TRUE, failedAt |-> k]

\* --------------------------------------------------------- LoadBalancer
\* The registry is the record lb = [nodes, rr_iter] below; the variables
\* nodes and rr_iter hold its two fields.
RECURSIVE Repeat(_, _)
Repeat(x, n) == IF n <= 0 THEN <<>> ELSE <<x>> \o Repeat(x, n - 1)

\* The names of order (insertion order) whose entry satisfies the flag.
RECURSIVE NamesWhere(_, _, _)
NamesWhere(order, ns, flag) ==
    IF order = <<>> THEN <<>>
    ELSE (IF ns[Head(order)].enabled = flag THEN <<Head(order)>> ELSE <<>>)
         \o NamesWhere(Tail(order), ns, flag)

\* The weighted_nodes list of _update_rr_iter: every enabled node, in
\* insertion order, repeated weight times.
RECURSIVE WeightedNodes(_, _)
WeightedNodes(order, ns) ==
    IF order = <<>> THEN <<>>
    ELSE (IF ns[Head(order)].enabled
          THEN Repeat(Head(order), ns[Head(order)].weight) ELSE <<>>)
         \o WeightedNodes(Tail(order), ns)

\* LoadBalancer._update_rr_iter: a fresh itertools.cycle over the weighted
\* list (position 0), or None (items = <<>>) when the list is empty.
update_rr_iter(ns) ==
    [items |-> WeightedNodes(SelectSeq(NodeOrder, LAMBDA m : m \in DOMAIN ns),
                             ns),
     pos |-> 0]

\* LoadBalancer.add_node for every configured node, in insertion order.
add_nodes ==
    LET ns == [n \in Nodes |-> [enabled |-> TRUE, weight |-> Weight[n]]]
    IN  [nodes |-> ns, rr_iter |-> update_rr_iter(ns)]

\* A disable_node that forgets to rebuild the rotation.
disable_node_stale(lb, name) ==
    IF name \in DOMAIN lb.nodes
    THEN [lb EXCEPT !.nodes[name].enabled = FALSE]
    ELSE lb

\* LoadBalancer.disable_node
disable_node(lb, name) ==
    IF name \in DOMAIN lb.nodes
    THEN LET ns == [lb.nodes EXCEPT ![name].enabled = FALSE]
         IN  [nodes |-> ns, rr_iter |-> update_rr_iter(ns)]
    ELSE lb

\* LoadBalancer.enable_node
enable_node(lb, name) ==
    IF name \in DOMAIN lb.nodes
    THEN LET ns == [lb.nodes EXCEPT ![name].enabled = TRUE]
         IN  [nodes |-> ns, rr_iter |-> update_rr_iter(ns)]
    ELSE lb

\* LoadBalancer.remove_node
remove_node(lb, name) ==
    IF name \in DOMAIN lb.nodes
    THEN LET ns == [m \in DOMAIN lb.nodes \ {name} |-> lb.nodes[m]]
         IN  [nodes |-> ns, rr_iter |-> update_rr_iter(ns)]
    ELSE lb

\* A route_select that falls back to the first registered node when no
\* node is enabled.
route_select_fallback(lb) ==
    IF lb.rr_iter.items = <<>>
    THEN [lb |-> lb, result |-> NodeOrder[1]]
    ELSE LET it == lb.rr_iter
         IN  [lb |-> [lb EXCEPT !.rr_iter.pos = (it.pos + 1) % Len(it.items)],
              result |-> it.items[it.pos + 1]]

\* LoadBalancer.route_select: the next name of the cycle, or the exception
\* "No enabled nodes available".  Yields [lb, result].
route_select(lb) ==
    IF lb.rr_iter.items = <<>>
    THEN [lb |-> lb, result |-> "Exception"]
    ELSE LET it == lb.rr_iter
         IN  [lb |-> [lb EXCEPT !.rr_iter.pos = (it.pos + 1) % Len(it.items)],
              result |-> it.items[it.pos + 1]]

\* LoadBalancer.route_dml: the engines of all enabled nodes, in order.
route_dml(lb) == NamesWhere(NodeOrder, lb.nodes, TRUE)

\* LoadBalancer.get_disabled_nodes: the disabled nodes, in order.
get_disabled_nodes(lb) == NamesWhere(NodeOrder, lb.nodes, FALSE)

LB == [nodes |-> nodes, rr_iter |-> rr_iter]

\* ------------------------------------------------------------ strategies
\* The list of enabled nodes a caller hands to pick_node.
enabled_nodes(ns) == NamesWhere(NodeOrder, ns, TRUE)

\* RoundRobinStrategy.pick_node.  Yields [strat, result]; the result is a
\* node, "RuntimeError" (empty list) or "IndexError" (index out of range).
RoundRobin_pick_node(s, en) ==
    IF en = <<>> THEN [strat |-> s, result |-> "RuntimeError"]
    ELSE IF s.rr_index >= Len(en)
    THEN [strat |-> s, result |-> "IndexError"]
    ELSE [strat |-> [s EXCEPT !.rr_index = (s.rr_index + 1) % Len(en)],
          result |-> en[s.rr_index + 1]]

\* A weighted pick that advances one call late (counter > weight).
WeightedRoundRobin_pick_node_late(s, en, ns) ==
    IF en = <<>> THEN [strat |-> s, result |-> "RuntimeError"]
    ELSE IF s.wrr_index >= Len(en)
    THEN [strat |-> s, result |-> "IndexError"]
    ELSE LET node == en[s.wrr_index + 1]
             counter == s.wrr_counter + 1
         IN  [strat |->
                 IF counter > ns[node].weight
                 THEN [s EXCEPT !.wrr_counter = 0,
                                !.wrr_index = (s.wrr_index + 1) % Len(en)]
                 ELSE [s EXCEPT !.wrr_counter = counter],
              result |-> node]

\* WeightedRoundRobinStrategy.pick_node.
WeightedRoundRobin_pick_node(s, en, ns) ==
    IF en = <<>> THEN [strat |-> s, result |-> "RuntimeError"]
    ELSE IF s.wrr_index >= Len(en)
    THEN [strat |-> s, result |-> "IndexError"]
    ELSE LET node == en[s.wrr_index + 1]
             counter == s.wrr_counter + 1
         IN  [strat |->
                 IF counter >= ns[node].weight
                 THEN [s EXCEPT !.wrr_counter = 0,
                                !.wrr_index = (s.wrr_index + 1) % Len(en)]
                 ELSE [s EXCEPT !.wrr_counter = counter],
              result |-> node]

\* NodeInfo.record_execution
record_execution(info, elapsed) ==
    [info EXCEPT !.total_time = @ + elapsed, !.query_count = @ + 1]

\* An average that reports 0 for a node without samples.
avg_response_time_zero(info) ==
    IF info.query_count = 0
    THEN [inf |-> FALSE, num |-> 0, den |-> 1]
    ELSE [inf |-> FALSE, num |-> info.total_time, den |-> info.query_count]

\* NodeInfo.avg_response_time: float("inf") without samples, else the
\* quotient total_time / query_count, kept as numerator and denominator.
avg_response_time(info) ==
    IF info.query_count = 0
    THEN [inf |-> TRUE, num |-> 0, den |-> 1]
    ELSE [inf |-> FALSE, num |-> info.total_time, den |-> info.query_count]

\* a < b on the values of avg_response_time (inf < inf is false).
KeyLess(a, b) ==
    IF a.inf THEN FALSE
    ELSE IF b.inf THEN TRUE
    ELSE a.num * b.den < b.num * a.den

\* Python's min(list, key=...): the first element is the candidate and a
\* later element replaces it only when its key is strictly smaller.
RECURSIVE MinByAvg(_, _, _)
MinByAvg(best, rest, ns) ==
    IF rest = <<>> THEN best
    ELSE MinByAvg(IF KeyLess(avg_response_time(ns[Head(rest)]),
                             avg_response_time(ns[best]))
                  THEN Head(rest) ELSE best,
                  Tail(rest), ns)

\* LeastTimeStrategy.pick_node
LeastTime_pick_node(en, ns) ==
    IF en = <<>> THEN "RuntimeError"
    ELSE MinByAvg(Head(en), Tail(en), ns)

\* --------------------------------------------------------------- Subject
\* Subject.add_observer: appended unless already in the list.
add_observer(obs, o) ==
    IF \E i \in 1..Len(obs) : obs[i] = o THEN obs ELSE Append(obs, o)

\* Subject.remove_observer
remove_observer(obs, o) == SelectSeq(obs, LAMBDA x : x # o)

\* Subject.notify: update is called on the observers in list order; an
\* exception raised by an update leaves the loop and notify.  failing is
\* the set of observers whose update raises.  Yields [calls, raised].
RECURSIVE notify(_, _)
notify(obs, failing) ==
    IF obs = <<>> THEN [calls |-> <<>>, raised |-> FALSE]
    ELSE IF Head(obs) \in failing
    THEN [calls |-> <<Head(obs)>>, raised |-> TRUE]
    ELSE LET r == notify(Tail(obs), failing)
         IN  [calls |-> <<Head(obs)>> \o r.calls, raised |-> r.raised]

\* init_system_components: the failover observer is registered first, the
\* recovery observer second.
main_observers == add_observer(add_observer(<<>>, "failover"), "recovery")

\* ------------------------------------------------------------------ Init
\* main.py, init_system_components: the nodes registered (add_node enables
\* them), one CommandLog per node with no file yet, a HealthChecker whose
\* last_status is UNKNOWN everywhere, fresh strategies, no request running.
NoPass == [n \in Nodes |-> "NONE"]
NoPick == [op |-> "none", list |-> <<>>, result |-> "none"]

\* NodeInfo.__init__: enabled, weight 1, no latency sample.
NodeInfo(enabled, weight) ==
    [enabled |-> enabled, weight |-> weight, total_time |-> 0,
     query_count |-> 0]
make_nodes == [n \in PoolNames |-> NodeInfo(TRUE, 1)]
NoStats == [n \in Nodes |-> [total_time |-> 0, query_count |-> 0]]
NoReq == [op |-> "none"]

InitCore ==
    /\ nodes = add_nodes.nodes
    /\ rr_iter = add_nodes.rr_iter
    /\ up = [n \in Nodes |-> TRUE]
    /\ last_status = [n \in Nodes |-> "UNKNOWN"]
    /\ hc = [pc |-> "idle", i |-> 0, k |-> 0]
    /\ commands = [n \in Nodes |-> load(NoFile)]
    /\ file = [n \in Nodes |-> NoFile]
    /\ executed = [n \in Nodes |-> {}]
    /\ wr = [pc |-> "idle", cmd |-> NoCommand, enabled_engines |-> <<>>,
             disabled_nodes |-> <<>>, i |-> 0]
    /\ nwrites = 0
    /\ journaled = [n \in Nodes |-> {}]
    /\ strat = [rr_index |-> 0, wrr_index |-> 0, wrr_counter |-> 0]
    /\ picked = NoPick
    /\ pass = [prev |-> NoPass, probe |-> NoPass, events |-> <<>>,
               same |-> FALSE]
    /\ recov = [n \in Nodes |-> "none"]
    /\ logop = [op |-> "init", added |-> <<>>, drained |-> TRUE,
                before |-> <<>>, observed |-> <<>>, raised |-> FALSE,
                failedAt |-> 0]

Init ==
    /\ InitCore
    /\ pool = make_nodes
    /\ stats = NoStats
    /\ req = NoReq
    /\ observers = main_observers

\* ------------------------------------------------------- SQLTypeParser
\* A statement is a sequence of tokens: keywords and other words (in
\* upper or lower case), a blank, a newline, the comment markers and the
\* semicolon.  Adjacent tokens without white space between them form one
\* word, as the characters of the string do.
Words == {"SELECT", "insert", "x"}
Blank == {" ", "\n"}
Tokens == Words \cup Blank \cup {"--", "/*", "*/", ";"}

\* re.sub(r'--.*?$', '', sql, flags=re.MULTILINE): from each "--" up to,
\* and without, the end of its line.
RECURSIVE SkipLine(_)
SkipLine(s) ==
    IF s = <<>> \/ Head(s) = "\n" THEN s ELSE SkipLine(Tail(s))

RECURSIVE strip_line_comments(_)
strip_line_comments(s) ==
    IF s = <<>> THEN <<>>
    ELSE IF Head(s) = "--" THEN strip_line_comments(SkipLine(Tail(s)))
    ELSE <<Head(s)>> \o strip_line_comments(Tail(s))

\* re.sub(r'/\*.*?\*/', '', sql, flags=re.DOTALL): from each "/*" through
\* the nearest "*/" after it; a "/*" that is never closed stays.
RECURSIVE strip_block_comments(_)
strip_block_comments(s) ==
    IF s = <<>> THEN <<>>
    ELSE IF Head(s) = "/*" /\ \E i \in 2..Len(s) : s[i] = "*/"
    THEN LET close == CHOOSE i \in 2..Len(s) :
                          /\ s[i] = "*/"
                          /\ \A j \in 2..(i - 1) : s[j] # "*/"
         IN  strip_block_comments(SubSeq(s, close + 1, Len(s)))
    ELSE <<Head(s)>> \o strip_block_comments(Tail(s))

\* str.strip(chars): the characters of the set are dropped at both ends.
RECURSIVE lstrip(_, _)
lstrip(s, chars) ==
    IF s # <<>> /\ Head(s) \in chars THEN lstrip(Tail(s), chars) ELSE s
RECURSIVE rstrip(_, _)
rstrip(s, chars) ==
    IF s # <<>> /\ s[Len(s)] \in chars
    THEN rstrip(SubSeq(s, 1, Len(s) - 1), chars) ELSE s
strip(s, chars) == rstrip(lstrip(s, chars), chars)

\* str.lower
lower(s) == [i \in 1..Len(s) |-> IF s[i] = "SELECT" THEN "select" ELSE s[i]]

\* SQLTypeParser._clean_sql
clean_sql(sql) ==
    lower(strip(strip_block_comments(strip_line_comments(sql)), Blank))

\* clean.split()[0]: the characters of the cleaned statement up to its
\* first white space (the statement has no leading white space).
RECURSIVE first_word(_)
first_word(clean) ==
    IF clean = <<>> \/ Head(clean) \in Blank THEN <<>>
    ELSE <<Head(clean)>> \o first_word(Tail(clean))

DML_COMMANDS == {"insert", "update", "delete"}
DDL_COMMANDS == {"create", "alter", "drop", "rename"}
TX_COMMANDS == {"begin", "commit", "rollback"}
ADMIN_COMMANDS == {"set", "use", "pragma"}
PROC_COMMANDS == {"call", "exec"}
Keyword(first, set) == \E k \in set : first = <<k>>

\* SQLTypeParser.get_type: the tag of the statement, or "IndexError" when
\* clean.split() is the empty list.
get_type(sql) ==
    IF sql = <<>> THEN "OTHER"
    ELSE LET clean == clean_sql(sql)
             first == first_word(clean)
         IN  IF \E i \in 1..Len(strip(strip(clean, Blank), {";"})) :
                   strip(strip(clean, Blank), {";"})[i] = ";"
             THEN "MULTI"
             ELSE IF strip(clean, Blank) = <<>> THEN "IndexError"
             ELSE IF first = <<"select">> THEN "SELECT"
             ELSE IF Keyword(first, DML_COMMANDS) THEN "DML"
             ELSE IF first = <<"merge">> THEN "MERGE"
             ELSE IF first = <<"truncate">> THEN "DDL"
             ELSE IF Keyword(first, DDL_COMMANDS) THEN "DDL"
             ELSE IF Keyword(first, TX_COMMANDS) THEN "TX"
             ELSE IF Keyword(first, PROC_COMMANDS) THEN "PROCEDURE"
             ELSE IF Keyword(first, ADMIN_COMMANDS) THEN "ADMIN"
             ELSE "OTHER"

\* Statements of at most n tokens.
RECURSIVE Statements(_)
Statements(n) ==
    IF n = 0 THEN {<<>>}
    ELSE LET shorter == Statements(n - 1)
         IN  shorter \cup {Append(s, t) : s \in shorter, t \in Tokens}

\* A comment or white space that a caller may put into a statement.
Pieces == {<<" ">>, <<"\n">>, <<"/*", "x", "*/">>, <<"--", "x", "\n">>}

ParserVarsRest == <<nodes, rr_iter, up, last_status, hc, commands, file,
                    executed, wr, nwrites, journaled, strat, picked, pass,
                    recov, logop, pool, stats>>

InitParser ==
    /\ InitCore
    /\ pool = make_nodes
    /\ stats = NoStats
    /\ req \in {[op |-> "statement", s |-> s, t |-> s, edits |-> 0] :
                   s \in Statements(MaxTokens)}
    /\ observers = main_observers

\* A second spelling t of the statement s: a comment or white space is
\* put in at position p.
EditStatement(p, piece) ==
    /\ req.op = "statement"
    /\ req.edits < MaxEdits
    /\ p \in 0..Len(req.t)
    /\ req' = [req EXCEPT !.t = SubSeq(req.t, 1, p) \o piece
                                  \o SubSeq(req.t, p + 1, Len(req.t)),
                           !.edits = @ + 1]
    /\ UNCHANGED ParserVarsRest
    /\ UNCHANGED observers

\* Both spellings are classified.
Classify ==
    /\ req.op = "statement"
    /\ req' = [op |-> "classified", s |-> req.s, t |-> req.t,
                tag_s |-> get_type(req.s), tag_t |-> get_type(req.t)]
    /\ UNCHANGED ParserVarsRest
    /\ UNCHANGED observers

NextParser ==
    \/ \E p \in 0..(MaxTokens + 3 * MaxEdits) : \E piece \in Pieces :
          EditStatement(p, piece)
    \/ Classify

SpecParser == InitParser /\ [][NextParser]_vars

\* ------------------------------------------------------ event bus
\* A Subject on its own: observers are registered (some of them more than
\* once) and removed, and events are published; the update of any
\* observer may raise.
ObserverPool == {"failover", "recovery", "printer"}

SubjectVarsRest == <<nodes, rr_iter, up, last_status, hc, commands, file,
                     executed, wr, nwrites, journaled, strat, picked, pass,
                     recov, logop, pool, stats>>

InitSubject ==
    /\ InitCore
    /\ pool = make_nodes
    /\ stats = NoStats
    /\ observers = <<>>
    /\ req = [op |-> "new", reg |-> <<>>, calls |-> <<>>, raised |-> FALSE,
              failing |-> {}]

\* req.reg is the history of the add_observer calls made for the
\* observers now registered.
AddObserver(o) ==
    /\ Len(req.reg) < MaxRegs
    /\ observers' = add_observer(observers, o)
    /\ req' = [op |-> "add", reg |-> Append(req.reg, o), calls |-> <<>>,
                raised |-> FALSE, failing |-> {}]
    /\ UNCHANGED SubjectVarsRest

RemoveObserver(o) ==
    /\ \E i \in 1..Len(observers) : observers[i] = o
    /\ observers' = remove_observer(observers, o)
    /\ req' = [op |-> "remove", reg |-> SelectSeq(req.reg, LAMBDA x : x # o),
                calls |-> <<>>, raised |-> FALSE, failing |-> {}]
    /\ UNCHANGED SubjectVarsRest

Notify(failing) ==
    /\ LET r == notify(observers, failing)
       IN  req' = [op |-> "notify", reg |-> req.reg, calls |-> r.calls,
                   raised |-> r.raised, failing |-> failing]
    /\ UNCHANGED <<observers, SubjectVarsRest>>

NextSubject ==
    \/ \E o \in ObserverPool : AddObserver(o)
    \/ \E o \in ObserverPool : RemoveObserver(o)
    \/ \E failing \in SUBSET ObserverPool : Notify(failing)

SpecSubject == InitSubject /\ [][NextSubject]_vars

\* ------------------------------------------------ commands executed
\* Commands over the columns of the users table, built by a caller and
\* executed against an engine.
Cols == {"id", "name"}
Maps == UNION {[D -> 1..MaxVal] : D \in (SUBSET Cols) \ {{}}}
Commands ==
    {Insert("users", v) : v \in Maps}
    \cup {Update("users", sv, w) : sv \in Maps, w \in Maps}
    \cup {Delete("users", w) : w \in Maps}
Engines == {"ok", "down", "None"}

InitCommand ==
    /\ InitCore
    /\ pool = make_nodes
    /\ stats = NoStats
    /\ req \in {[op |-> "built", cmd |-> c] : c \in Commands}
    /\ observers = main_observers

Execute(engine) ==
    /\ req.op = "built"
    /\ LET r == execute(req.cmd, engine)
       IN  req' = [op |-> "execute", cmd |-> req.cmd, engine |-> engine,
                   sent |-> r.sent, error |-> r.error]
    /\ UNCHANGED <<nodes, rr_iter, up, last_status, hc, commands, file,
                   executed, wr, nwrites, journaled, strat, picked, pass,
                   recov, logop, pool, stats>>
    /\ UNCHANGED observers

NextCommand == \E engine \in Engines : Execute(engine)

SpecCommand == InitCommand /\ [][NextCommand]_vars

\* ------------------------------------------- sequential command log
\* One caller working on one CommandLog: add, replay, and a restart of the
\* process (a new CommandLog built from the same path).
LogVarsRest == <<nodes, rr_iter, up, last_status, hc, executed, wr,
                 nwrites, journaled, strat, picked, pass, recov,
                 pool, stats, req>>

LogAdd(c) ==
    /\ Len(commands[LogNode]) < MaxLog
    /\ LET r == add(commands[LogNode], c)
       IN  /\ commands' = [commands EXCEPT ![LogNode] = r.commands]
           /\ file' = [file EXCEPT ![LogNode] = r.file]
           /\ logop' = [op |-> "add",
                        added |-> IF logop.drained THEN <<c>>
                                  ELSE Append(logop.added, c),
                        drained |-> FALSE,
                        before |-> commands[LogNode], observed |-> <<>>,
                        raised |-> FALSE, failedAt |-> 0]
    /\ UNCHANGED LogVarsRest
    /\ UNCHANGED observers

\* replay(engine) against an engine that fails exactly the commands in bad.
LogReplay(bad) ==
    /\ LET r == replay(commands[LogNode], file[LogNode], bad)
       IN  /\ commands' = [commands EXCEPT ![LogNode] = r.commands]
           /\ file' = [file EXCEPT ![LogNode] = r.file]
           /\ logop' = [op |-> "replay",
                        added |-> IF logop.drained THEN <<>> ELSE logop.added,
                        drained |-> logop.drained \/ ~r.raised,
                        before |-> commands[LogNode],
                        observed |-> r.observed, raised |-> r.raised,
                        failedAt |-> r.failedAt]
    /\ UNCHANGED LogVarsRest
    /\ UNCHANGED observers

\* The process restarts: CommandLog(path) again.
LogRestart ==
    /\ commands' = [commands EXCEPT ![LogNode] = load(file[LogNode])]
    /\ logop' = [logop EXCEPT !.op = "restart",
                              !.before = commands[LogNode],
                              !.observed = <<>>, !.raised = FALSE,
                              !.failedAt = 0]
    /\ UNCHANGED <<file, LogVarsRest>>
    /\ UNCHANGED observers

NextLog ==
    \/ \E c \in CmdPool : LogAdd(c)
    \/ \E bad \in SUBSET CmdPool : LogReplay(bad)
    \/ LogRestart

SpecLog == Init /\ [][NextLog]_vars

\* ------------------------------------- the command log file on disk
\* save step by step: open(path, "w") cuts the file, json.dump and the
\* close of the with block write the new content.  The file can be read,
\* and the process can die and start again, between the two steps.
SaveVarsRest == <<nodes, rr_iter, up, last_status, hc, executed, nwrites,
                  journaled, strat, picked, pass, recov, pool, stats, req,
                  observers>>

\* log.add(c) up to the open of save.
SaveAddOpen(c) ==
    /\ wr.pc = "idle"
    /\ Len(commands[LogNode]) < MaxLog
    /\ commands' = [commands EXCEPT ![LogNode] = Append(@, c)]
    /\ file' = [file EXCEPT ![LogNode] = open_w]
    /\ wr' = [wr EXCEPT !.pc = "dump"]
    /\ logop' = [logop EXCEPT !.op = "add", !.before = commands[LogNode],
                              !.raised = FALSE]
    /\ UNCHANGED SaveVarsRest

\* log.replay(engine) on a working engine, up to the open of save.
SaveReplayOpen ==
    /\ wr.pc = "idle"
    /\ commands' = [commands EXCEPT ![LogNode] = <<>>]
    /\ file' = [file EXCEPT ![LogNode] = open_w]
    /\ wr' = [wr EXCEPT !.pc = "dump"]
    /\ logop' = [logop EXCEPT !.op = "replay", !.before = commands[LogNode],
                              !.raised = FALSE]
    /\ UNCHANGED SaveVarsRest

\* json.dump and the close of the file.
SaveDump ==
    /\ wr.pc = "dump"
    /\ file' = [file EXCEPT ![LogNode] = save(commands[LogNode])]
    /\ wr' = [wr EXCEPT !.pc = "idle"]
    /\ UNCHANGED <<commands, logop, SaveVarsRest>>

\* The process dies and starts again: CommandLog(path).
SaveCrash ==
    /\ LET r == CommandLog_init(file[LogNode])
       IN  /\ commands' = [commands EXCEPT ![LogNode] = r.commands]
           /\ logop' = [logop EXCEPT !.op = "restart",
                                     !.before = r.commands,
                                     !.raised = (r.error # "none")]
    /\ wr' = [wr EXCEPT !.pc = "idle"]
    /\ UNCHANGED <<file, SaveVarsRest>>

NextSave ==
    \/ \E c \in CmdPool : SaveAddOpen(c)
    \/ SaveReplayOpen
    \/ SaveDump
    \/ SaveCrash

SpecSave == Init /\ [][NextSave]_vars

\* ------------------------------------------------- strategies in use
\* The registry used directly (as test_load_balancer.py does): reads and
\* writes are routed, and the selection strategies are called with the
\* registry's enabled nodes, while nodes are disabled and enabled between
\* the calls.
StratVarsRest == <<up, last_status, hc, commands, file, executed, wr,
                   nwrites, journaled, pass, recov, logop, pool, stats, req>>

PickRoundRobin ==
    /\ LET en == enabled_nodes(nodes)
           r == RoundRobin_pick_node(strat, en)
       IN  /\ strat' = r.strat
           /\ picked' = [op |-> "round_robin", list |-> en,
                         result |-> r.result]
    /\ UNCHANGED <<nodes, rr_iter, StratVarsRest>>
    /\ UNCHANGED observers

PickWeightedRoundRobin ==
    /\ LET en == enabled_nodes(nodes)
           r == WeightedRoundRobin_pick_node(strat, en, nodes)
       IN  /\ strat' = r.strat
           /\ picked' = [op |-> "weighted_round_robin", list |-> en,
                         result |-> r.result]
    /\ UNCHANGED <<nodes, rr_iter, StratVarsRest>>
    /\ UNCHANGED observers

\* LeastTimeStrategy.pick_node on the registry's enabled nodes.
PickLeastTime ==
    /\ LET en == enabled_nodes(nodes)
       IN  picked' = [op |-> "least_time", list |-> en,
                      result |-> LeastTime_pick_node(en, stats)]
    /\ UNCHANGED <<nodes, rr_iter, strat, StratVarsRest>>
    /\ UNCHANGED observers

\* LoadBalancer.route_select called by a reader.
RouteSelect ==
    /\ LET r == route_select(LB)
       IN  /\ rr_iter' = r.lb.rr_iter
           /\ picked' = [op |-> "route_select", list |-> <<>>,
                         result |-> r.result]
    /\ UNCHANGED <<nodes, strat, StratVarsRest>>
    /\ UNCHANGED observers

\* LoadBalancer.route_dml called by a writer.
RouteDml ==
    /\ picked' = [op |-> "route_dml", list |-> route_dml(LB),
                  result |-> "none"]
    /\ UNCHANGED <<nodes, rr_iter, strat, StratVarsRest>>
    /\ UNCHANGED observers

DisableNode(n) ==
    /\ LET lb == disable_node(LB, n)
       IN  nodes' = lb.nodes /\ rr_iter' = lb.rr_iter
    /\ picked' = NoPick
    /\ UNCHANGED <<strat, StratVarsRest>>
    /\ UNCHANGED observers

EnableNode(n) ==
    /\ LET lb == enable_node(LB, n)
       IN  nodes' = lb.nodes /\ rr_iter' = lb.rr_iter
    /\ picked' = NoPick
    /\ UNCHANGED <<strat, StratVarsRest>>
    /\ UNCHANGED observers

NextStrategy ==
    \/ PickRoundRobin
    \/ PickWeightedRoundRobin
    \/ PickLeastTime
    \/ RouteSelect
    \/ RouteDml
    \/ \E n \in Nodes : DisableNode(n)
    \/ \E n \in Nodes : EnableNode(n)

SpecStrategy == Init /\ [][NextStrategy]_vars

\* ------------------------------------- route_select against the registry
\* route_select on a reader thread, one attribute read at a time, while
\* another thread calls disable_node, enable_node and remove_node (the
\* registry takes no lock).  req is the call: its position, the name taken
\* from the iterator, its result, and (history) members, the nodes that
\* were registered and enabled at some moment since the call began.
RaceVarsRest == <<up, last_status, hc, commands, file, executed, wr,
                  nwrites, journaled, strat, picked, pass, recov, logop,
                  pool, stats, observers>>

Reading == req # NoReq /\ req.pc \in {"check", "next", "lookup"}

Members(ns) == {n \in DOMAIN ns : ns[n].enabled}

\* The reader enters route_select.
RsCall ==
    /\ ~Reading
    /\ req' = [op |-> "route_select", pc |-> "check", node_name |-> "none",
               result |-> "none", members |-> Members(nodes)]
    /\ UNCHANGED <<nodes, rr_iter, RaceVarsRest>>

\* if not self._rr_iter: raise Exception("No enabled nodes available")
RsCheck ==
    /\ Reading /\ req.pc = "check"
    /\ req' = IF rr_iter.items = <<>>
              THEN [req EXCEPT !.pc = "done", !.result = "Exception"]
              ELSE [req EXCEPT !.pc = "next"]
    /\ UNCHANGED <<nodes, rr_iter, RaceVarsRest>>

\* node_name = next(self._rr_iter): the attribute is read again; next(None)
\* is a TypeError.
RsNext ==
    /\ Reading /\ req.pc = "next"
    /\ IF rr_iter.items = <<>>
       THEN /\ req' = [req EXCEPT !.pc = "done", !.result = "TypeError"]
            /\ UNCHANGED rr_iter
       ELSE /\ req' = [req EXCEPT !.pc = "lookup",
                                  !.node_name = rr_iter.items[rr_iter.pos + 1]]
            /\ rr_iter' = [rr_iter EXCEPT
                              !.pos = (rr_iter.pos + 1) % Len(rr_iter.items)]
    /\ UNCHANGED <<nodes, RaceVarsRest>>

\* return self.nodes[node_name]["engine"]: a missing key is a KeyError.
RsLookup ==
    /\ Reading /\ req.pc = "lookup"
    /\ req' = [req EXCEPT
                 !.pc = "done",
                 !.result = IF req.node_name \in DOMAIN nodes
                            THEN req.node_name ELSE "KeyError"]
    /\ UNCHANGED <<nodes, rr_iter, RaceVarsRest>>

\* The other thread changes the registry.
RaceChange(lb) ==
    /\ nodes' = lb.nodes
    /\ rr_iter' = lb.rr_iter
    /\ req' = IF Reading
              THEN [req EXCEPT !.members = @ \cup Members(lb.nodes)]
              ELSE req
    /\ UNCHANGED RaceVarsRest

RaceDisable(n) == RaceChange(disable_node(LB, n))
RaceEnable(n) == RaceChange(enable_node(LB, n))
RaceRemove(n) == n \in DOMAIN nodes /\ RaceChange(remove_node(LB, n))

NextRace ==
    \/ RsCall
    \/ RsCheck
    \/ RsNext
    \/ RsLookup
    \/ \E n \in Nodes : RaceDisable(n)
    \/ \E n \in Nodes : RaceEnable(n)
    \/ \E n \in Nodes : RaceRemove(n)

SpecRace == Init /\ [][NextRace]_vars

\* --------------------------------------- strategies on a list of nodes
\* The strategies called the way their tests call them: a list of
\* NodeInfo objects is built, some of them disabled, and the enabled ones
\* are handed to pick_node again and again.
PoolVarsRest == <<nodes, rr_iter, up, last_status, hc, commands, file,
                  executed, wr, nwrites, journaled, picked, pass, recov,
                  logop, stats>>

\* A weighted strategy in its initial state and a list whose weights and
\* enabled flags are any within the bounds.
InitWeighted ==
    /\ InitCore
    /\ pool \in [PoolNames -> {NodeInfo(e, w) :
                                 e \in BOOLEAN, w \in 1..MaxWeight}]
    /\ stats = NoStats
    /\ req = [op |-> "weighted", hist |-> <<>>]
    /\ observers = main_observers

PoolPickWeighted ==
    /\ Len(req.hist) < MaxPicks
    /\ LET en == NamesWhere(PoolOrder, pool, TRUE)
           r == WeightedRoundRobin_pick_node(strat, en, pool)
       IN  /\ strat' = r.strat
           /\ req' = [req EXCEPT !.hist = Append(@, r.result)]
    /\ UNCHANGED <<pool, PoolVarsRest>>
    /\ UNCHANGED observers

NextWeighted == PoolPickWeighted

SpecWeighted == InitWeighted /\ [][NextWeighted]_vars

\* A list with any enabled flags; samples are recorded on its nodes and
\* the least-time strategy picks among the enabled ones.
InitLeastTime ==
    /\ InitCore
    /\ pool \in [PoolNames -> {NodeInfo(e, 1) : e \in BOOLEAN}]
    /\ stats = NoStats
    /\ req = [op |-> "none", list |-> <<>>, result |-> "none"]
    /\ observers = main_observers

PoolRecord(n, elapsed) ==
    /\ pool[n].query_count < MaxSamples
    /\ pool' = [pool EXCEPT ![n] = record_execution(@, elapsed)]
    /\ req' = [op |-> "none", list |-> <<>>, result |-> "none"]
    /\ UNCHANGED <<strat, PoolVarsRest>>
    /\ UNCHANGED observers

PoolPickLeastTime ==
    /\ LET en == NamesWhere(PoolOrder, pool, TRUE)
       IN  req' = [op |-> "least_time", list |-> en,
                   result |-> LeastTime_pick_node(en, pool)]
    /\ UNCHANGED <<pool, strat, PoolVarsRest>>
    /\ UNCHANGED observers

NextLeastTime ==
    \/ \E n \in PoolNames : \E elapsed \in 1..MaxElapsed :
          PoolRecord(n, elapsed)
    \/ PoolPickLeastTime

SpecLeastTime == InitLeastTime /\ [][NextLeastTime]_vars

\* ---------------------------------------------------------- read path
\* What the backend of a node does with one statement: it serves it, or
\* it fails while the connection is acquired or while the statement runs,
\* with an OperationalError or with another exception.
FailKinds == {[at |-> a, exc |-> x] : a \in {"connect", "execute"},
                                      x \in {"OperationalError", "Other"}}
Ok == [at |-> "none", exc |-> "none"]
Outcomes == {Ok} \cup FailKinds

\* The retry loop of the SELECT branch: the first node, in registry
\* order, that was not tried, is enabled and serves the statement; every
\* failure of a candidate is swallowed.  "none" when there is no such node.
RECURSIVE retry_select(_, _, _, _)
retry_select(order, ns, tried, out) ==
    IF order = <<>> THEN "none"
    ELSE LET n == Head(order)
         IN  IF n \in tried \/ ~ns[n].enabled
             THEN retry_select(Tail(order), ns, tried, out)
             ELSE IF out[n] = Ok THEN n
             ELSE retry_select(Tail(order), ns, tried, out)

\* The nodes the retry loop calls, in order, up to the one that serves.
RECURSIVE retry_calls(_, _, _, _)
retry_calls(order, ns, tried, out) ==
    IF order = <<>> THEN <<>>
    ELSE LET n == Head(order)
         IN  IF n \in tried \/ ~ns[n].enabled
             THEN retry_calls(Tail(order), ns, tried, out)
             ELSE IF out[n] = Ok THEN <<n>>
             ELSE <<n>> \o retry_calls(Tail(order), ns, tried, out)

\* The outer handler of the SELECT branch: an OperationalError becomes
\* NoAvailableNodesError("RETRY"), any other exception passes through.
select_error(exc) ==
    IF exc = "OperationalError" THEN "NoAvailableNodesError(RETRY)" ELSE exc

\* A retry that leaves target_engine on the node chosen first.
serving_engine_first(target, alt) == target

\* target_engine = n.engine, the assignment made when a retry succeeds.
serving_engine(target, alt) == alt

\* ProxyConnection.execute, the SELECT branch.  Yields
\* [lb, stats, ok, rows (the node whose rows are returned), meta, error,
\*  calls (the nodes the statement was sent to)].
execute_select(lb, st, out, elapsed) ==
    LET r == route_select(lb)
        target == r.result
        Fail(l, err, calls) ==
            [lb |-> l, stats |-> st, ok |-> FALSE, rows |-> "none",
             meta |-> "none", error |-> err, calls |-> calls]
        Served(l, rows, engine, calls) ==
            [lb |-> l,
             stats |-> [st EXCEPT ![engine] = record_execution(@, elapsed)],
             ok |-> TRUE, rows |-> rows, meta |-> engine, error |-> "none",
             calls |-> calls]
    IN  IF target = "Exception" THEN Fail(lb, "Exception", <<>>)
        ELSE IF out[target] = Ok
        THEN Served(r.lb, target, target, <<target>>)
        ELSE IF out[target].at = "connect"
        THEN Fail(r.lb, select_error(out[target].exc), <<target>>)
        ELSE LET alt == retry_select(NodeOrder, r.lb.nodes, {target}, out)
                 calls == <<target>>
                            \o retry_calls(NodeOrder, r.lb.nodes, {target}, out)
             IN  IF alt = "none"
                 THEN Fail(r.lb, select_error(out[target].exc), calls)
                 ELSE Served(r.lb, alt, serving_engine(target, alt), calls)

\* One client after another reads through the proxy while nodes are
\* disabled and enabled and backends fail in every way.
ReadVarsRest == <<up, last_status, hc, commands, file, executed, wr,
                  nwrites, journaled, strat, pass, recov, logop, pool>>

Read(out, elapsed) ==
    /\ \A n \in Nodes : stats[n].query_count < MaxSamples
    /\ LET r == execute_select(LB, stats, out, elapsed)
       IN  /\ rr_iter' = r.lb.rr_iter
           /\ stats' = r.stats
           /\ req' = [op |-> "read", nodes |-> nodes, out |-> out,
                       target |-> route_select(LB).result,
                       elapsed |-> elapsed, before |-> stats,
                       ok |-> r.ok, rows |-> r.rows, meta |-> r.meta,
                       error |-> r.error, calls |-> r.calls]
    /\ UNCHANGED <<nodes, picked, ReadVarsRest>>
    /\ UNCHANGED observers

NextRead ==
    \/ \E out \in [Nodes -> Outcomes] : \E elapsed \in 1..MaxElapsed :
          Read(out, elapsed)
    \/ \E n \in Nodes : DisableNode(n)
    \/ \E n \in Nodes : EnableNode(n)

SpecRead == Init /\ [][NextRead]_vars

\* --------------------------------------------------------- write path
\* What the backend of a node does with the statements of one call: it
\* takes them, or it fails at one stage: connecting, executing (with an
\* OperationalError or with another exception, which the transaction
\* scope tells apart), or committing.
WriteOutcomes ==
    {Ok, [at |-> "connect", exc |-> "OperationalError"],
         [at |-> "execute", exc |-> "OperationalError"],
         [at |-> "execute", exc |-> "Other"],
         [at |-> "commit", exc |-> "OperationalError"]}


\* Position of the first node of en that is in bad (0: none).
FirstWhere(en, bad) ==
    IF \E i \in 1..Len(en) : en[i] \in bad
    THEN CHOOSE i \in 1..Len(en) :
            en[i] \in bad /\ \A j \in 1..(i - 1) : en[j] \notin bad
    ELSE 0

\* The set of the elements of a sequence.
Range(seq) == {seq[i] : i \in 1..Len(seq)}

\* log.add(command) on the log of every node of names, in order; a call
\* without a Command journals nothing.
\* logs is [commands, file], both per node.
RECURSIVE journal(_, _, _)
journal(logs, names, cmd) ==
    IF names = <<>> \/ cmd = NoCommand THEN logs
    ELSE LET n == Head(names)
             r == add(logs.commands[n], cmd)
         IN  journal([commands |-> [logs.commands EXCEPT ![n] = r.commands],
                      file |-> [logs.file EXCEPT ![n] = r.file]],
                     Tail(names), cmd)

\* ProxyConnection.execute, the DML branch: the statement runs in a
\* transaction of its own on each enabled engine, in order; the first
\* failure (engine.begin(), conn.execute() or the commit that ends the
\* with block) leaves execute with its exception; after the loop the
\* Command is added to the log of every disabled node.
\* Yields [logs, enabled, disabled, entered, execs, exit, raised, open];
\* execs are the executions asked of the engines, exit the commits made,
\* open the nodes whose connection is still open when execute is left
\* (none: each connection is the subject of a with block).
execute_dml(lb, logs, cmd, out) ==
    LET en == route_dml(lb)
        dis == get_disabled_nodes(lb)
        k == FirstWhere(en, {n \in Nodes : out[n] # Ok})
        done == IF k = 0 THEN en ELSE SubSeq(en, 1, k - 1)
        tried == IF k = 0 THEN en ELSE SubSeq(en, 1, k)
    IN  [logs |-> IF k = 0 THEN journal(logs, dis, cmd) ELSE logs,
         enabled |-> en, disabled |-> dis, entered |-> TRUE,
         execs |-> [i \in 1..Len(tried) |-> [node |-> tried[i], stmt |-> cmd]],
         exit |-> [commits |-> done, rollbacks |-> <<>>,
                   committed |-> Range(done)],
         raised |-> k # 0, open |-> {}]

\* ProxyTxConnection.execute for one statement: conn.execute on every
\* connection of the scope, in order; an OperationalError adds the
\* Command (if any) to the log of the node, every other exception is only
\* printed.
RECURSIVE tx_execute(_, _, _, _)
tx_execute(logs, conns, cmd, out) ==
    IF conns = <<>> THEN logs
    ELSE LET n == Head(conns)
             journaled_here ==
                 /\ out[n].at = "execute"
                 /\ out[n].exc = "OperationalError"
                 /\ n \in DOMAIN logs.commands
         IN  tx_execute(IF journaled_here THEN journal(logs, <<n>>, cmd)
                        ELSE logs,
                        Tail(conns), cmd, out)

\* The statements of a scope, one ProxyTxConnection.execute after another.
RECURSIVE tx_body(_, _, _, _)
tx_body(logs, conns, stmts, out) ==
    IF stmts = <<>> THEN logs
    ELSE tx_body(tx_execute(logs, conns, Head(stmts), out), conns,
                 Tail(stmts), out)

\* The connections every statement of stmts is executed on, in call order.
RECURSIVE tx_execs(_, _)
tx_execs(conns, stmts) ==
    IF stmts = <<>> THEN <<>>
    ELSE [i \in 1..Len(conns) |-> [node |-> conns[i], stmt |-> Head(stmts)]]
         \o tx_execs(conns, Tail(stmts))

\* An exit that commits whatever happened in the body.
tx_exit_commit_always(conns, body_raised, out) ==
    [commits |-> conns,
     rollbacks |-> SelectSeq(conns, LAMBDA n : out[n].at = "commit"),
     committed |-> {n \in Range(conns) : out[n].at # "commit"}]

\* ProxyTransaction.__exit__: without an exception every transaction is
\* committed in order, and one whose commit fails is rolled back; with an
\* exception every transaction is rolled back.
\* Yields [commits, rollbacks (the calls, in order), committed].
tx_exit(conns, body_raised, out) ==
    IF ~body_raised
    THEN [commits |-> conns,
          rollbacks |-> SelectSeq(conns, LAMBDA n : out[n].at = "commit"),
          committed |-> {n \in Range(conns) : out[n].at # "commit"}]
    ELSE [commits |-> <<>>, rollbacks |-> conns, committed |-> {}]

\* with frontend_engine.begin() as conn: the statements of stmts (each
\* the Command passed as _command_obj, or none), then an exception in
\* the body or not.  begin() takes route_dml; __enter__ connects and
\* begins on each engine in order, and an engine that cannot connect
\* makes __enter__ raise: the body never runs and __exit__ is not called.
\* Yields [logs, enabled, disabled, entered, execs, exit, raised, open].
\* __exit__ closes every connection of _pairs; when __enter__ raises at
\* the k-th engine nothing closes the connections and transactions it
\* opened on the engines before it.
tx_scope(lb, logs, stmts, body_raised, out) ==
    LET en == route_dml(lb)
        k == FirstWhere(en, {n \in Nodes : out[n].at = "connect"})
        entered == k = 0
    IN  [open |-> IF entered THEN {} ELSE Range(SubSeq(en, 1, k - 1)),
         logs |-> IF entered THEN tx_body(logs, en, stmts, out) ELSE logs,
         enabled |-> en, disabled |-> get_disabled_nodes(lb),
         entered |-> entered,
         execs |-> IF entered THEN tx_execs(en, stmts) ELSE <<>>,
         exit |-> IF entered THEN tx_exit(en, body_raised, out)
                  ELSE [commits |-> <<>>, rollbacks |-> <<>>,
                        committed |-> {}],
         raised |-> ~entered \/ body_raised]

\* The bodies of the transaction scopes tried: one statement with its
\* Command, one without, two statements with their Commands.
ScopeBodies ==
    {<<ClientCommand("POST", 1)>>, <<NoCommand>>,
     <<ClientCommand("POST", 1), ClientCommand("PUT", 1)>>}

\* One client after another writes through the proxy while nodes are
\* disabled and enabled and backends fail in every way.
WriteVarsRest == <<rr_iter, up, last_status, hc, wr, journaled, strat,
                   picked, pass, recov, logop, pool, stats>>

Logs == [commands |-> commands, file |-> file]

\* The commands of cmds committed on the nodes of done are added to what
\* these nodes have executed.
Commit(done, cmds) ==
    [n \in Nodes |-> IF n \in done
                     THEN executed[n] \cup (Range(cmds) \ {NoCommand})
                     ELSE executed[n]]

\* The call made: its kind, its statements' Commands, what the backends
\* do, whether the body of the scope raises, and the registry and the
\* logs before it.
Call(op, stmts, out, body_raised) ==
    [op |-> op, stmts |-> stmts, out |-> out, body_raised |-> body_raised,
     nodes |-> nodes, before |-> commands, res |-> <<>>]

\* The state after a call whose result req' holds.
Returned ==
    /\ commands' = req'.res.logs.commands
    /\ file' = req'.res.logs.file
    /\ executed' = Commit({n \in req'.res.exit.committed : req'.out[n] = Ok},
                           req'.stmts)

\* conn.execute(statement, _command_obj=cmd) on a ProxyConnection.
Write(cmd, out) ==
    /\ nwrites < MaxCalls
    /\ nwrites' = nwrites + 1
    /\ req' = [Call("write", <<cmd>>, out, FALSE) EXCEPT
                 !.res = execute_dml(LB, Logs, cmd, out)]
    /\ Returned
    /\ UNCHANGED <<nodes, WriteVarsRest>>
    /\ UNCHANGED observers

\* A transaction scope on the frontend engine.
TxScope(stmts, body_raised, out) ==
    /\ nwrites < MaxCalls
    /\ nwrites' = nwrites + 1
    /\ req' = [Call("tx", stmts, out, body_raised) EXCEPT
                 !.res = tx_scope(LB, Logs, stmts, body_raised, out)]
    /\ Returned
    /\ UNCHANGED <<nodes, WriteVarsRest>>
    /\ UNCHANGED observers

\* create_user, update_user, delete_user: the Command is built and added
\* to the log of every disabled node, then the statement runs in a
\* transaction scope of the frontend engine with the Command attached.
api_write(lb, logs, cmd, out) ==
    tx_scope(lb, journal(logs, get_disabled_nodes(lb), cmd), <<cmd>>,
             FALSE, out)

ApiWrite(out) ==
    /\ nwrites < MaxCalls
    /\ nwrites' = nwrites + 1
    /\ LET cmd == ClientCommand(OpOf(nwrites + 1), 1)
       IN  req' = [Call("api", <<cmd>>, out, FALSE) EXCEPT
                     !.res = api_write(LB, Logs, cmd, out)]
    /\ Returned
    /\ UNCHANGED <<nodes, WriteVarsRest>>
    /\ UNCHANGED observers

NextWrite ==
    \/ \E cmd \in {ClientCommand("POST", 1), NoCommand} :
          \E out \in [Nodes -> WriteOutcomes] : Write(cmd, out)
    \/ \E stmts \in ScopeBodies : \E body_raised \in BOOLEAN :
          \E out \in [Nodes -> WriteOutcomes] :
             TxScope(stmts, body_raised, out)
    \/ \E out \in [Nodes -> WriteOutcomes] : ApiWrite(out)
    \/ \E n \in Nodes : DisableNode(n)
    \/ \E n \in Nodes : EnableNode(n)

SpecWrite == Init /\ [][NextWrite]_vars

\* ------------------------------------------------ other statements
\* The tags that are neither SELECT nor DML.
OtherTypes == {"DDL", "TX", "ADMIN", "PROCEDURE", "MULTI", "MERGE", "OTHER"}

\* The branch ProxyConnection.execute takes for a tag.
execute_branch(qtype) ==
    IF qtype = "SELECT" THEN "select"
    ELSE IF qtype = "DML" THEN "dml"
    ELSE "fallback"

\* A fallback that takes the last enabled engine.
execute_other_last(lb, out) ==
    LET en == route_dml(lb)
    IN  IF en = <<>>
        THEN [calls |-> <<>>, ok |-> TRUE, rows |-> "empty", error |-> "none"]
        ELSE IF out[en[Len(en)]] = Ok
        THEN [calls |-> <<en[Len(en)]>>, ok |-> TRUE, rows |-> en[Len(en)],
              error |-> "none"]
        ELSE [calls |-> <<en[Len(en)]>>, ok |-> FALSE, rows |-> "none",
              error |-> out[en[Len(en)]].exc]

\* ProxyConnection.execute, the fallback branch: the statement goes to
\* enabled[0] of route_dml, in a connection of its own; an exception of
\* that engine leaves execute; without an enabled engine the result is
\* empty.  Yields [calls (the nodes the statement was sent to), ok, rows
\* (the node whose rows are returned), error].
execute_other(lb, out) ==
    LET en == route_dml(lb)
    IN  IF en = <<>>
        THEN [calls |-> <<>>, ok |-> TRUE, rows |-> "empty", error |-> "none"]
        ELSE IF out[en[1]] = Ok
        THEN [calls |-> <<en[1]>>, ok |-> TRUE, rows |-> en[1],
              error |-> "none"]
        ELSE [calls |-> <<en[1]>>, ok |-> FALSE, rows |-> "none",
              error |-> out[en[1]].exc]

\* One statement after another that is neither a read nor a write goes
\* through the proxy while nodes are disabled and enabled.
Other(qtype, out) ==
    /\ execute_branch(qtype) = "fallback"
    /\ LET r == execute_other(LB, out)
       IN  req' = [op |-> "other", qtype |-> qtype, nodes |-> nodes,
                   out |-> out, calls |-> r.calls, ok |-> r.ok,
                   rows |-> r.rows, error |-> r.error]
    /\ UNCHANGED <<nodes, rr_iter, up, last_status, hc, commands, file,
                   executed, wr, nwrites, journaled, strat, picked, pass,
                   recov, logop, pool, stats, observers>>

NextOther ==
    \/ \E qtype \in OtherTypes \cup {"SELECT", "DML"} :
          \E out \in [Nodes -> Outcomes] : Other(qtype, out)
    \/ \E n \in Nodes : DisableNode(n)
    \/ \E n \in Nodes : EnableNode(n)

SpecOther == Init /\ [][NextOther]_vars

\* ------------------------------------------------ health monitoring
\* HealthChecker.ping: True when the probe goes through.
ping(isup) == isup

\* The comparison of run_check that decides whether to notify.
status_changed(new_status, last) == new_status # last

\* A run_check that never records the status it has just seen.
set_last_status_skip(ls, name, new_status) == ls

\* The last_status assignment that closes an iteration of run_check.
set_last_status(ls, name, new_status) == [ls EXCEPT ![name] = new_status]

\* A FailoverManager that only logs.
FailoverManager_update_ignore(lb, event) == lb

\* A failover observer that also puts a node back on UP.
FailoverManager_update_enable(lb, event) ==
    IF event.status = "DOWN" THEN disable_node(lb, event.db)
    ELSE enable_node(lb, event.db)

\* FailoverManager.update: disable on DOWN, nothing on UP.
FailoverManager_update(lb, event) ==
    IF event.status = "DOWN" THEN disable_node(lb, event.db) ELSE lb

\* The failover observer alone on a registry in use: it is handed events
\* (for registered and for unknown nodes) between reads, while nodes are
\* enabled and disabled by their other callers.
Events == {[db |-> n, status |-> st] :
              n \in Nodes \cup {"db9"}, st \in {"UP", "DOWN"}}

FailoverUpdate(event) ==
    /\ (IF req = NoReq THEN 0 ELSE req.seq) < MaxEvents
    /\ LET lb == FailoverManager_update(LB, event)
       IN  nodes' = lb.nodes /\ rr_iter' = lb.rr_iter
    /\ picked' = NoPick
    /\ req' = [op |-> "failover", event |-> event, before |-> LB,
                seq |-> IF req = NoReq THEN 1 ELSE req.seq + 1]
    /\ UNCHANGED <<up, last_status, hc, commands, file, executed, wr,
                   nwrites, journaled, strat, pass, recov, logop, pool,
                   stats>>
    /\ UNCHANGED observers

NextFailover ==
    \/ \E event \in Events : FailoverUpdate(event)
    \/ RouteSelect
    \/ \E n \in Nodes : EnableNode(n)
    \/ \E n \in Nodes : DisableNode(n)

SpecFailover == Init /\ [][NextFailover]_vars

\* ------------------------------------------------- run_check, one pass
\* run_check as one call, with probes that may fail in two ways and with
\* observers whose update may raise.  Probes[n] is what engine.connect and
\* conn.execute do for node n: "ok", "SQLAlchemyError" (which ping catches)
\* or "Error" (any other exception, which ping lets through).
ProbeErrors == {"SQLAlchemyError", "Error"}

\* An observer's update on the state s = [lb, commands, file, executed]:
\* FailoverManager.update, or RecoveryManager.update with a replay against
\* a node that has just answered.
observer_update(o, s, event) ==
    IF o = "failover"
    THEN [s EXCEPT !.lb = FailoverManager_update(s.lb, event)]
    ELSE IF o = "recovery" /\ event.status = "UP"
    THEN LET db == event.db
             r == replay(s.commands[db], s.file[db], {})
         IN  [lb |-> enable_node(s.lb, db),
              commands |-> [s.commands EXCEPT ![db] = r.commands],
              file |-> [s.file EXCEPT ![db] = r.file],
              executed |-> [s.executed EXCEPT
                              ![db] = @ \cup Range(r.observed)]]
    ELSE s

\* The updates Subject.notify completed, in call order.
RECURSIVE updates(_, _, _, _)
updates(calls, failing, s, event) ==
    IF calls = <<>> THEN s
    ELSE updates(Tail(calls), failing,
                 IF Head(calls) \in failing THEN s
                 ELSE observer_update(Head(calls), s, event),
                 event)

\* HealthChecker.run_check from node i of the iteration on.  c holds
\* last_status, the state s the observers work on, the events emitted,
\* the nodes probed and the exception that left run_check ("none" if it
\* returned).
RECURSIVE run_check(_, _, _, _, _)
run_check(i, c, probes, obs, failing) ==
    IF i > Len(NodeOrder) THEN c
    ELSE LET n == NodeOrder[i]
             p == [c EXCEPT !.probed = @ \cup {n}]
             new_status == IF ping(probes[n] = "ok") THEN "UP" ELSE "DOWN"
             changed == status_changed(new_status, c.last_status[n])
             event == [db |-> n, status |-> new_status]
             r == notify(obs, failing)
             q == [p EXCEPT !.events = Append(@, event),
                            !.s = updates(r.calls, failing, @, event)]
         IN  IF probes[n] = "Error"
             THEN [p EXCEPT !.raised = "ping"]
             ELSE IF changed /\ r.raised
             THEN [q EXCEPT !.raised = "observer"]
             ELSE run_check(i + 1,
                            [(IF changed THEN q ELSE p) EXCEPT
                                !.last_status =
                                    set_last_status(@, n, new_status)],
                            probes, obs, failing)

CheckVarsRest == <<up, hc, wr, nwrites, journaled, strat, picked, pass,
                   recov, logop, pool, stats, observers>>

\* The statuses last emitted per node (history), "NONE" before the first.
Emitted == IF req = NoReq THEN NoPass ELSE req.emitted

\* One call of run_check by the health loop.  req keeps the pass: the
\* probes, the events emitted, the nodes probed, how it ended, and the
\* status last emitted per node before and after it.
RunCheck(errs, failing) ==
    /\ LET probes == [n \in Nodes |-> IF up[n] THEN "ok" ELSE errs[n]]
           c == run_check(1,
                          [last_status |-> last_status,
                           s |-> [lb |-> LB, commands |-> commands,
                                  file |-> file, executed |-> executed],
                           events |-> <<>>, probed |-> {}, raised |-> "none"],
                          probes, observers, failing)
       IN  /\ last_status' = c.last_status
           /\ nodes' = c.s.lb.nodes
           /\ rr_iter' = c.s.lb.rr_iter
           /\ commands' = c.s.commands
           /\ file' = c.s.file
           /\ executed' = c.s.executed
           /\ req' = [op |-> "run_check", probes |-> probes,
                      failing |-> failing, events |-> c.events,
                      probed |-> c.probed, raised |-> c.raised,
                      before |-> Emitted,
                      emitted |-> [n \in Nodes |->
                          IF \E k \in 1..Len(c.events) : c.events[k].db = n
                          THEN (CHOOSE e \in Range(c.events) : e.db = n).status
                          ELSE Emitted[n]]]
    /\ UNCHANGED CheckVarsRest

\* The backend of a node stops answering, or answers again, between passes.
CheckFail(n) ==
    /\ up[n]
    /\ up' = [up EXCEPT ![n] = FALSE]
    /\ UNCHANGED <<nodes, rr_iter, last_status, hc, commands, file, executed,
                   wr, nwrites, journaled, strat, picked, pass,
                   recov, logop, pool, stats, req, observers>>

CheckRecover(n) ==
    /\ ~up[n]
    /\ up' = [up EXCEPT ![n] = TRUE]
    /\ UNCHANGED <<nodes, rr_iter, last_status, hc, commands, file, executed,
                   wr, nwrites, journaled, strat, picked, pass,
                   recov, logop, pool, stats, req, observers>>

NextCheck ==
    \/ \E errs \in [Nodes -> ProbeErrors] :
          \E failing \in SUBSET {"failover", "recovery"} :
             RunCheck(errs, failing)
    \/ \E n \in Nodes : CheckFail(n)
    \/ \E n \in Nodes : CheckRecover(n)

SpecCheck == Init /\ [][NextCheck]_vars

\* The health thread moves on to the next node of run_check, or returns.
Advance(h) ==
    IF h.i < Len(NodeOrder)
    THEN [pc |-> "check", i |-> h.i + 1, k |-> 0]
    ELSE [pc |-> "idle", i |-> 0, k |-> 0]

\* A RecoveryManager.update whose except block does not return.
ReplayRaised_fallthrough(h) == [h EXCEPT !.pc = "enable"]

\* RecoveryManager.update when replay raised: log the failure and return.
ReplayRaised(h) == Advance(h)

\* RecoveryManager.update holds a log and an engine for every node the
\* health checker knows (main.py builds all three from the same names).
HasLogAndEngine(name) == name \in DOMAIN commands /\ name \in DOMAIN up

HcNode == NodeOrder[hc.i]

\* The health loop calls run_check.
HcStart ==
    /\ hc.pc = "idle"
    /\ hc' = [pc |-> "check", i |-> 1, k |-> 0]
    /\ pass' = [pass EXCEPT !.events = <<>>, !.same = TRUE]
    /\ UNCHANGED <<nodes, rr_iter, up, last_status, commands, file, executed,
                   wr, nwrites, journaled, strat, picked, recov,
                   logop, pool, stats, req>>
    /\ UNCHANGED observers

\* One iteration of run_check up to the observers: ping, compare, notify.
\* FailoverManager.update runs first, then RecoveryManager.update, which
\* on UP goes on to replay the log (the steps below) and on DOWN returns.
HcCheck ==
    /\ hc.pc = "check"
    /\ LET n == HcNode
           new_status == IF ping(up[n]) THEN "UP" ELSE "DOWN"
           changed == status_changed(new_status, last_status[n])
           event == [db |-> n, status |-> new_status]
           lb == IF changed THEN FailoverManager_update(LB, event) ELSE LB
           recovers == changed /\ new_status = "UP" /\ HasLogAndEngine(n)
       IN  /\ pass' = [pass EXCEPT
                         !.prev[n] = last_status[n],
                         !.probe[n] = new_status,
                         !.events = IF changed THEN Append(@, event) ELSE @,
                         !.same = @ /\ new_status = pass.probe[n]]
           /\ nodes' = lb.nodes
           /\ rr_iter' = lb.rr_iter
           /\ recov' = IF changed THEN [recov EXCEPT ![n] = "none"] ELSE recov
           /\ IF recovers
              THEN /\ hc' = [hc EXCEPT !.pc = "replay", !.k = 0]
                   /\ UNCHANGED last_status
              ELSE /\ hc' = Advance(hc)
                   /\ last_status' = set_last_status(last_status, n, new_status)
    /\ UNCHANGED <<up, commands, file, executed, wr, nwrites,
                   journaled, strat, picked, logop, pool, stats, req>>
    /\ UNCHANGED observers

\* CommandLog.replay, one turn of its for loop: the next command is run
\* against the engine, or the loop is over.  A command fails when the
\* backend does not answer; the exception leaves replay and is caught by
\* RecoveryManager.update, which returns to run_check.
HcReplay ==
    /\ hc.pc = "replay"
    /\ LET n == HcNode
       IN  IF hc.k < Len(commands[n])
           THEN IF up[n]
                THEN /\ executed' = [executed EXCEPT
                                       ![n] = @ \cup {commands[n][hc.k + 1]}]
                     /\ hc' = [hc EXCEPT !.k = hc.k + 1]
                     /\ UNCHANGED <<last_status, recov>>
                ELSE /\ hc' = ReplayRaised(hc)
                     /\ recov' = [recov EXCEPT ![n] = "failed"]
                     /\ last_status' = set_last_status(last_status, n, "UP")
                     /\ UNCHANGED executed
           ELSE /\ hc' = [hc EXCEPT !.pc = "clear"]
                /\ UNCHANGED <<executed, last_status, recov>>
    /\ UNCHANGED <<nodes, rr_iter, up, commands, file, wr, nwrites,
                   journaled, strat, picked, pass, logop, pool, stats, req>>
    /\ UNCHANGED observers

\* CommandLog.replay after the loop: self.commands = []
HcClear ==
    /\ hc.pc = "clear"
    /\ commands' = [commands EXCEPT ![HcNode] = <<>>]
    /\ hc' = [hc EXCEPT !.pc = "save"]
    /\ UNCHANGED <<nodes, rr_iter, up, last_status, file, executed, wr, nwrites, journaled, strat, picked, pass, recov,
                   logop, pool, stats, req>>
    /\ UNCHANGED observers

\* CommandLog.replay, its closing self.save(); replay returns.
HcSave ==
    /\ hc.pc = "save"
    /\ file' = [file EXCEPT ![HcNode] = save(commands[HcNode])]
    /\ recov' = [recov EXCEPT ![HcNode] = "replayed"]
    /\ hc' = [hc EXCEPT !.pc = "enable"]
    /\ UNCHANGED <<nodes, rr_iter, up, last_status, commands, executed,
                   wr, nwrites, journaled, strat, picked, pass,
                   logop, pool, stats, req>>
    /\ UNCHANGED observers

\* RecoveryManager.update after replay: enable_node; update returns and
\* run_check records the status.
HcEnable ==
    /\ hc.pc = "enable"
    /\ LET lb == enable_node(LB, HcNode)
       IN  nodes' = lb.nodes /\ rr_iter' = lb.rr_iter
    /\ last_status' = set_last_status(last_status, HcNode, "UP")
    /\ hc' = Advance(hc)
    /\ UNCHANGED <<up, commands, file, executed, wr, nwrites,
                   journaled, strat, picked, pass, recov, logop, pool, stats, req>>
    /\ UNCHANGED observers

\* The backend of a node stops answering, or answers again.
EnvFail(n) ==
    /\ up[n]
    /\ up' = [up EXCEPT ![n] = FALSE]
    /\ UNCHANGED <<nodes, rr_iter, last_status, hc, commands, file, executed,
                   wr, nwrites, journaled, strat, picked, pass,
                   recov, logop, pool, stats, req>>
    /\ UNCHANGED observers

EnvRecover(n) ==
    /\ ~up[n]
    /\ up' = [up EXCEPT ![n] = TRUE]
    /\ UNCHANGED <<nodes, rr_iter, last_status, hc, commands, file, executed,
                   wr, nwrites, journaled, strat, picked, pass,
                   recov, logop, pool, stats, req>>
    /\ UNCHANGED observers

\* ------------------------------------------------------ client write
\* ProxyConnection.execute, the DML branch, on a thread of its own.
WrIdle == [pc |-> "idle", cmd |-> NoCommand, enabled_engines |-> <<>>,
           disabled_nodes |-> <<>>, i |-> 0]

\* After the broadcast loop: on to the journal loop, or return.
AfterExec(w) ==
    IF w.disabled_nodes = <<>> THEN WrIdle
    ELSE [w EXCEPT !.pc = "journal", !.i = 1]

\* enabled_engines = self._lb.route_dml(sql)
WrRoute ==
    /\ wr.pc = "idle"
    /\ nwrites < MaxWrites
    /\ nwrites' = nwrites + 1
    /\ wr' = [pc |-> "routed", cmd |-> ClientCommand(OpOf(nwrites + 1), nwrites + 1),
              enabled_engines |-> route_dml(LB), disabled_nodes |-> <<>>,
              i |-> 0]
    /\ UNCHANGED <<nodes, rr_iter, up, last_status, hc, commands, file,
                   executed, journaled, strat, picked, pass,
                   recov, logop, pool, stats, req>>
    /\ UNCHANGED observers

\* disabled_nodes = self._lb.get_disabled_nodes()
WrDisabled ==
    /\ wr.pc = "routed"
    /\ LET w == [wr EXCEPT !.disabled_nodes = get_disabled_nodes(LB)]
       IN  wr' = IF w.enabled_engines = <<>> THEN AfterExec(w)
                 ELSE [w EXCEPT !.pc = "exec", !.i = 1]
    /\ UNCHANGED <<nodes, rr_iter, up, last_status, hc, commands, file,
                   executed, nwrites, journaled, strat, picked,
                   pass, recov, logop, pool, stats, req>>
    /\ UNCHANGED observers

\* One turn of the broadcast loop: the statement runs in a transaction on
\* the next enabled engine; a backend that does not answer raises out of
\* execute (nothing catches it).
WrExec ==
    /\ wr.pc = "exec"
    /\ LET n == wr.enabled_engines[wr.i]
       IN  IF up[n]
           THEN /\ executed' = [executed EXCEPT ![n] = @ \cup {wr.cmd}]
                /\ wr' = IF wr.i < Len(wr.enabled_engines)
                         THEN [wr EXCEPT !.i = wr.i + 1]
                         ELSE AfterExec(wr)
           ELSE /\ wr' = WrIdle
                /\ UNCHANGED executed
    /\ UNCHANGED <<nodes, rr_iter, up, last_status, hc, commands, file,
                   nwrites, journaled, strat, picked, pass, recov, logop, pool, stats, req>>
    /\ UNCHANGED observers

\* The journal loop, CommandLog.add of the next disabled node: the append
WrAppend ==
    /\ wr.pc = "journal"
    /\ LET n == wr.disabled_nodes[wr.i]
       IN  /\ commands' = [commands EXCEPT ![n] = Append(@, wr.cmd)]
           /\ journaled' = [journaled EXCEPT ![n] = @ \cup {wr.cmd}]
    /\ wr' = [wr EXCEPT !.pc = "save"]
    /\ UNCHANGED <<nodes, rr_iter, up, last_status, hc, file, executed,
                   nwrites, strat, picked, pass, recov, logop, pool, stats, req>>
    /\ UNCHANGED observers

\* ... and the save that ends add.
WrSave ==
    /\ wr.pc = "save"
    /\ LET n == wr.disabled_nodes[wr.i]
       IN  file' = [file EXCEPT ![n] = save(commands[n])]
    /\ wr' = IF wr.i < Len(wr.disabled_nodes)
             THEN [wr EXCEPT !.pc = "journal", !.i = wr.i + 1]
             ELSE WrIdle
    /\ UNCHANGED <<nodes, rr_iter, up, last_status, hc, commands, executed,
                   nwrites, journaled, strat, picked, pass,
                   recov, logop, pool, stats, req>>
    /\ UNCHANGED observers

Next ==
    \/ HcStart
    \/ HcCheck
    \/ HcReplay
    \/ HcClear
    \/ HcSave
    \/ HcEnable
    \/ \E n \in Nodes : EnvFail(n)
    \/ \E n \in Nodes : EnvRecover(n)
    \/ WrRoute
    \/ WrDisabled
    \/ WrExec
    \/ WrAppend
    \/ WrSave

Spec == Init /\ [][Next]_vars

\* ------------------------------------------ client write, demo endpoint
\* create_user (update_user, delete_user) on a request thread, next to the
\* health thread: the Command is added to the log of every node read as
\* disabled, then the statement runs in a transaction scope on the nodes
\* that begin() reads as enabled.  wr.live are the nodes whose connection
\* executed the statement; wr.twice (history) the nodes on which the
\* statement was committed after a replay had run the Command there.
ApiVarsRest == <<nodes, rr_iter, up, last_status, hc, strat, picked, pass,
                 recov, logop, pool, stats, req, observers>>

\* The loop over lb._nodes that collects the disabled nodes.
ApiDisabled ==
    /\ wr.pc = "idle"
    /\ nwrites < MaxWrites
    /\ nwrites' = nwrites + 1
    /\ LET dis == get_disabled_nodes(LB)
       IN  wr' = [pc |-> IF dis = <<>> THEN "api_begin" ELSE "api_add",
                  cmd |-> ClientCommand(OpOf(nwrites + 1), nwrites + 1),
                  enabled_engines |-> <<>>, disabled_nodes |-> dis, i |-> 1,
                  live |-> {}, twice |-> {}]
    /\ UNCHANGED <<commands, file, executed, journaled, ApiVarsRest>>

\* log.add(insert_cmd) for the next disabled node.
ApiAdd ==
    /\ wr.pc = "api_add"
    /\ LET n == wr.disabled_nodes[wr.i]
           r == add(commands[n], wr.cmd)
       IN  /\ commands' = [commands EXCEPT ![n] = r.commands]
           /\ file' = [file EXCEPT ![n] = r.file]
           /\ journaled' = [journaled EXCEPT ![n] = @ \cup {wr.cmd}]
    /\ wr' = IF wr.i < Len(wr.disabled_nodes)
             THEN [wr EXCEPT !.i = wr.i + 1]
             ELSE [wr EXCEPT !.pc = "api_begin"]
    /\ UNCHANGED <<executed, nwrites, ApiVarsRest>>

\* frontend_engine.begin() and __enter__: route_dml, then a connection and
\* a transaction on each engine; an engine that does not answer raises.
ApiBegin ==
    /\ wr.pc = "api_begin"
    /\ LET en == route_dml(LB)
       IN  wr' = IF en = <<>> \/ \E i \in 1..Len(en) : ~up[en[i]]
                 THEN [wr EXCEPT !.pc = "returned"]
                 ELSE [wr EXCEPT !.pc = "api_exec", !.enabled_engines = en,
                                 !.i = 1]
    /\ UNCHANGED <<commands, file, executed, journaled, nwrites,
                   ApiVarsRest>>

\* ProxyTxConnection.execute, one turn of its loop: conn.execute on the
\* next connection; an OperationalError adds the Command to the node's log.
ApiExec ==
    /\ wr.pc = "api_exec"
    /\ LET n == wr.enabled_engines[wr.i]
           r == add(commands[n], wr.cmd)
           w == IF wr.i < Len(wr.enabled_engines)
                THEN [wr EXCEPT !.i = wr.i + 1]
                ELSE [wr EXCEPT !.pc = "api_commit"]
       IN  IF up[n]
           THEN /\ wr' = [w EXCEPT !.live = @ \cup {n}]
                /\ UNCHANGED <<commands, file, journaled>>
           ELSE /\ wr' = w
                /\ commands' = [commands EXCEPT ![n] = r.commands]
                /\ file' = [file EXCEPT ![n] = r.file]
                /\ journaled' = [journaled EXCEPT ![n] = @ \cup {wr.cmd}]
    /\ UNCHANGED <<executed, nwrites, ApiVarsRest>>

\* __exit__ without an exception: commit on every connection (a commit
\* that fails is rolled back), close, return.
ApiCommit ==
    /\ wr.pc = "api_commit"
    /\ LET done == {n \in wr.live : up[n]}
       IN  /\ executed' = [n \in Nodes |->
                              IF n \in done THEN executed[n] \cup {wr.cmd}
                              ELSE executed[n]]
           /\ wr' = [wr EXCEPT !.pc = "returned",
                               !.twice = {n \in done : wr.cmd \in executed[n]}]
    /\ UNCHANGED <<commands, file, journaled, nwrites, ApiVarsRest>>

NextApi ==
    \/ HcStart
    \/ HcCheck
    \/ HcReplay
    \/ HcClear
    \/ HcSave
    \/ HcEnable
    \/ \E n \in Nodes : EnvFail(n)
    \/ \E n \in Nodes : EnvRecover(n)
    \/ ApiDisabled
    \/ ApiAdd
    \/ ApiBegin
    \/ ApiExec
    \/ ApiCommit

SpecApi == Init /\ [][NextApi]_vars

\* ------------------------------------------ node endpoints of the demo
\* POST /nodes/{name}/disable and /enable hand a synthetic event to the
\* observers of the health checker (hc.notify) on the request thread;
\* last_status is not touched.  req counts the requests.
AdminSeq == IF req = NoReq THEN 0 ELSE req.seq

AdminVarsRest == <<up, last_status, hc, wr, nwrites, journaled, strat,
                   picked, pass, logop, pool, stats, observers>>

\* POST /nodes/{name}/disable: FailoverManager disables the node,
\* RecoveryManager returns on DOWN.
AdminDisable(n) ==
    /\ AdminSeq < MaxCalls
    /\ LET event == [db |-> n, status |-> "DOWN"]
           lb == FailoverManager_update(LB, event)
       IN  /\ nodes' = lb.nodes /\ rr_iter' = lb.rr_iter
           /\ req' = [op |-> "admin", event |-> event, seq |-> AdminSeq + 1]
    /\ UNCHANGED <<commands, file, executed, recov, AdminVarsRest>>

\* POST /nodes/{name}/enable: FailoverManager does nothing on UP,
\* RecoveryManager replays the node's log and, unless the replay raised,
\* enables the node.
AdminEnable(n) ==
    /\ AdminSeq < MaxCalls
    /\ LET event == [db |-> n, status |-> "UP"]
           r == replay(commands[n], file[n],
                       IF up[n] THEN {} ELSE Range(commands[n]))
           lb == IF r.raised THEN LB ELSE enable_node(LB, n)
       IN  /\ nodes' = lb.nodes /\ rr_iter' = lb.rr_iter
           /\ commands' = [commands EXCEPT ![n] = r.commands]
           /\ file' = [file EXCEPT ![n] = r.file]
           /\ executed' = [executed EXCEPT ![n] = @ \cup Range(r.observed)]
           /\ recov' = [recov EXCEPT
                          ![n] = IF r.raised THEN "failed" ELSE "replayed"]
           /\ req' = [op |-> "admin", event |-> event, seq |-> AdminSeq + 1]
    /\ UNCHANGED AdminVarsRest

NextAdmin ==
    \/ HcStart
    \/ HcCheck
    \/ HcReplay
    \/ HcClear
    \/ HcSave
    \/ HcEnable
    \/ \E n \in Nodes : EnvFail(n)
    \/ \E n \in Nodes : EnvRecover(n)
    \/ WrRoute
    \/ WrDisabled
    \/ WrExec
    \/ WrAppend
    \/ WrSave
    \/ \E n \in Nodes : AdminDisable(n)
    \/ \E n \in Nodes : AdminEnable(n)

SpecAdmin == Init /\ [][NextAdmin]_vars

\* The health loop calls run_check again and again, and a run_check that
\* has begun goes on to its end.
HcNext == HcStart \/ HcCheck \/ HcReplay \/ HcClear \/ HcSave \/ HcEnable

FairSpec == Spec /\ WF_vars(HcNext)

FairAdmin == SpecAdmin /\ WF_vars(HcNext)

\* ================================================================ claims
Index(n) == CHOOSE i \in 1..Len(NodeOrder) : NodeOrder[i] = n
InLog(c, cmds) == \E i \in 1..Len(cmds) : cmds[i] = c
EmptyJsonArray == [exists |-> TRUE, data |-> <<>>]

\* The events of the current run_check pass that name node n.
EventsFor(n) == SelectSeq(pass.events, LAMBDA e : e.db = n)

\* Node n's iteration of the current (or, when idle, the last) pass has
\* emitted what it emits.
Probed(n) ==
    /\ pass.probe[n] # "NONE"
    /\ \/ hc.pc = "idle"
       \/ hc.pc = "check" /\ Index(n) < hc.i
       \/ hc.pc \notin {"idle", "check"} /\ Index(n) <= hc.i

C2_LogEmptyWhenEnabled ==
    [][(hc.pc = "enable" /\ hc'.pc # "enable")
          => (commands[HcNode] = <<>> /\ file[HcNode] = EmptyJsonArray)
      ]_vars

\* C3: a replay in which every command succeeds gives the engine exactly
\* the commands added since the log was last drained, in the order of the
\* adds, and leaves the log empty in memory and the file an empty array.
C3_ReplayInAppendOrder ==
    (logop.op = "replay" /\ ~logop.raised)
        => /\ logop.observed = logop.added
           /\ commands[LogNode] = <<>>
           /\ file[LogNode] = EmptyJsonArray

\* A successful replay of at least two different commands.
C3_Witness ==
    /\ logop.op = "replay" /\ ~logop.raised
    /\ Len(logop.observed) >= 2
    /\ logop.observed[1] # logop.observed[2]

\* C4: after a replay that failed on the k-th command, the log (memory and
\* file) holds exactly the commands from the k-th onward.
C4_PrefixDropped ==
    (logop.op = "replay" /\ logop.raised)
        => LET rest == SubSeq(logop.before, logop.failedAt, Len(logop.before))
           IN  /\ commands[LogNode] = rest
               /\ file[LogNode] = save(rest)

\* C5: when add(c) has returned, the log is the old log with c appended and
\* loading the file yields that log; a restart loads the log as it was.
C5_AddIsDurable ==
    /\ logop.op = "add"
          => /\ commands[LogNode] =
                   Append(logop.before, logop.added[Len(logop.added)])
             /\ file[LogNode].exists
             /\ load(file[LogNode]) = commands[LogNode]
    /\ logop.op = "restart" => commands[LogNode] = logop.before

\* A restart that loaded a log of at least two commands, an Update among
\* them, from the file the adds had written.
C5_Witness ==
    /\ logop.op = "restart"
    /\ Len(commands[LogNode]) >= 2
    /\ \E i \in 1..Len(commands[LogNode]) :
           commands[LogNode][i].cls = "Update"
    /\ commands[LogNode] = logop.added

\* C6: every command journaled for a node is in the node's log or has been
\* executed against the node.
C6_NoJournaledCommandLost ==
    \A n \in Nodes : \A c \in journaled[n] :
        c \in executed[n] \/ InLog(c, commands[n])

C8_DownDisables ==
    hc.pc = "idle" =>
        \A n \in Nodes :
            (pass.probe[n] = "DOWN" /\ pass.prev[n] \in {"UP", "UNKNOWN"})
                => /\ EventsFor(n) = <<[db |-> n, status |-> "DOWN"]>>
                   /\ ~nodes[n].enabled

\* A pass has returned in which a node that was UP failed its probe.
C8_Witness ==
    /\ hc.pc = "idle"
    /\ \E n \in Nodes :
          /\ pass.probe[n] = "DOWN" /\ pass.prev[n] = "UP"
          /\ EventsFor(n) # <<>>
          /\ ~nodes[n].enabled

\* C9: a node returned by route_select, or by a strategy picking from the
\* enabled nodes, and every node in the list of route_dml, is enabled: a
\* disabled node is never returned.
C9_DisabledNeverRouted ==
    /\ picked.result \in Nodes => nodes[picked.result].enabled
    /\ \A i \in 1..Len(picked.list) : nodes[picked.list[i]].enabled

\* A read was routed while the node at the head of the rotation is
\* disabled.
C9_Witness ==
    /\ picked.op = "route_select"
    /\ picked.result \in Nodes
    /\ ~nodes[NodeOrder[1]].enabled

\* C10: every pick_node call of the round-robin strategies on a non-empty
\* list returns a member of that list.
C10_PickWithinList ==
    (picked.op \in {"round_robin", "weighted_round_robin"}
        /\ picked.list # <<>>)
        => InLog(picked.result, picked.list)

\* The names of seq from position a to position b that equal e.
CountIn(seq, a, b, e) == Cardinality({i \in a..b : seq[i] = e})

\* C11: with a fixed list of enabled nodes of positive weights, the picks
\* of a fresh weighted round-robin strategy are the nodes in list order,
\* each repeated weight times, cyclically; so every window of W (the sum
\* of the weights) consecutive picks holds each node exactly weight times.
C11_WeightedCycle ==
    LET en == NamesWhere(PoolOrder, pool, TRUE)
        cyc == WeightedNodes(PoolOrder, pool)
        W == Len(cyc)
    IN  (req.op = "weighted" /\ en # <<>>) =>
           /\ \A i \in 1..Len(req.hist) : req.hist[i] = cyc[((i - 1) % W) + 1]
           /\ \A j \in 1..Len(req.hist) :
                 j + W - 1 <= Len(req.hist) =>
                    \A k \in 1..Len(en) :
                       CountIn(req.hist, j, j + W - 1, en[k])
                           = pool[en[k]].weight

\* The ten picks of db1 (weight 3), db2 (1), db3 (1).
C11_Witness ==
    /\ req.op = "weighted"
    /\ pool["db1"].weight = 3 /\ pool["db2"].weight = 1
    /\ pool["db3"].weight = 1
    /\ req.hist = <<"db1", "db1", "db1", "db2", "db3",
                    "db1", "db1", "db1", "db2", "db3">>

\* C12: the least-time pick from a non-empty list is a node of the list
\* whose average total/count no other node of the list undercuts; a node
\* without samples is picked only when no node of the list has samples;
\* every node earlier in the list has a strictly larger average.
C12_LeastTimePick ==
    (req.op = "least_time" /\ req.list # <<>>) =>
        LET r == req.result
            Sampled(m) == pool[m].query_count > 0
            \* avg(a) < avg(b), both with samples
            Below(a, b) == pool[a].total_time * pool[b].query_count
                              < pool[b].total_time * pool[a].query_count
        IN  /\ InLog(r, req.list)
            /\ ~Sampled(r) =>
                  \A i \in 1..Len(req.list) : ~Sampled(req.list[i])
            /\ Sampled(r) =>
                  \A i \in 1..Len(req.list) :
                     LET m == req.list[i]
                     IN  Sampled(m) =>
                            /\ ~Below(m, r)
                            /\ i < (CHOOSE j \in 1..Len(req.list) :
                                       req.list[j] = r) => Below(r, m)

\* Two nodes tie on the average with different samples, a node without
\* samples stands before them, and the earlier of the two is picked.
C12_Witness ==
    /\ req.op = "least_time"
    /\ req.list = <<"db1", "db2", "db3">>
    /\ pool["db1"].query_count = 0
    /\ pool["db2"].query_count = 2 /\ pool["db2"].total_time = 2
    /\ pool["db3"].query_count = 1 /\ pool["db3"].total_time = 1
    /\ req.result = "db2"

\* The nodes, other than the one chosen, that were enabled at the read
\* and whose backend serves the statement, in registry order.
CanServe ==
    SelectSeq(NodeOrder,
              LAMBDA n : /\ n # req.target
                         /\ req.nodes[n].enabled
                         /\ req.out[n] = Ok)

\* C13: when the node chosen for a SELECT fails it (acquiring the
\* connection or executing) and another enabled node can serve it, the
\* read returns the rows of the first such node in registry order, and the
\* statement is sent neither twice to the node that failed nor to a
\* disabled node.
C13_ReadFailsOver ==
    (req.op = "read" /\ req.target \in Nodes /\ req.out[req.target] # Ok
        /\ CanServe # <<>>)
        => /\ req.ok /\ req.rows = CanServe[1]
           /\ \A i \in 2..Len(req.calls) :
                 req.calls[i] # req.target /\ req.nodes[req.calls[i]].enabled

\* C14: when the node chosen and every other enabled node fail the SELECT,
\* the read fails with NoAvailableNodesError("RETRY"), whatever failed.
C14_AllFailRetry ==
    (req.op = "read" /\ req.target \in Nodes /\ req.out[req.target] # Ok
        /\ CanServe = <<>>)
        => ~req.ok /\ req.error = "NoAvailableNodesError(RETRY)"

\* C15: a read that succeeds adds one sample (its elapsed time) to the
\* node whose rows it returns, names that node in its metadata and leaves
\* the statistics of every other node as they were; a read that fails
\* leaves all statistics as they were.
C15_OneSampleOnServer ==
    req.op = "read" =>
        /\ req.ok =>
              /\ req.meta = req.rows
              /\ stats[req.rows].query_count
                    = req.before[req.rows].query_count + 1
              /\ stats[req.rows].total_time
                    = req.before[req.rows].total_time + req.elapsed
              /\ \A n \in Nodes \ {req.rows} : stats[n] = req.before[n]
        /\ ~req.ok => stats = req.before

\* A read served by the second node after the chosen one failed.
C15_Witness ==
    /\ req.op = "read" /\ req.ok
    /\ req.target = "db1" /\ req.rows = "db2"
    /\ stats["db2"].query_count = req.before["db2"].query_count + 1
    /\ stats["db1"] = req.before["db1"]

\* The Commands supplied with the statements of the last call.
Supplied == SelectSeq(req.stmts, LAMBDA c : c # NoCommand)
IsWrite == req.op \in {"write", "tx", "api"}
\* The nodes enabled, and those disabled, when the last call was made.
EnabledAtCall == SelectSeq(NodeOrder, LAMBDA n : req.nodes[n].enabled)
DisabledAtCall == SelectSeq(NodeOrder, LAMBDA n : ~req.nodes[n].enabled)
\* The nodes on which the last call's statements ran and were committed.
Succeeded == {n \in req.res.exit.committed : req.out[n] = Ok}

\* C16: a write through ProxyConnection.execute asks every node that was
\* enabled at routing time for exactly one execution of the statement, in
\* registry order, whether or not an earlier node failed.
C16_BroadcastReachesAll ==
    req.op = "write" =>
        req.res.execs = [i \in 1..Len(EnabledAtCall) |->
                           [node |-> EnabledAtCall[i], stmt |-> req.stmts[1]]]

\* C17: after a write that supplied a Command, on the plain path or in a
\* transaction scope, the log of every node that was enabled at routing
\* time and failed (connecting, executing or committing) has gained that
\* Command.
C17_FailedNodeJournaled ==
    (IsWrite /\ ~req.body_raised) =>
        \A n \in Range(EnabledAtCall) :
            req.out[n] # Ok => commands[n] = req.before[n] \o Supplied

\* C18: after one client write that supplied Command c, the log of every
\* node disabled at routing time is its old log with c appended, the
\* statement was not executed on those nodes, and the log of every node
\* on which the write succeeded is as it was.
C18_DisabledNodesJournaled ==
    (req.op \in {"write", "api"} /\ Supplied # <<>>) =>
        /\ \A n \in Range(DisabledAtCall) :
              /\ commands[n] = req.before[n] \o Supplied
              /\ \A i \in 1..Len(req.res.execs) : req.res.execs[i].node # n
        /\ \A n \in Succeeded : commands[n] = req.before[n]

\* C19: a transaction scope that was entered holds the nodes enabled at
\* begin(); every statement of the body was executed on every one of them,
\* in order; when the body exited normally the commit was called on every
\* one and only a node whose commit failed is rolled back; when the body
\* raised every one is rolled back and none is committed.  A scope that
\* could not be entered executes and commits nothing.
C19_ScopeCommitsOrRollsBack ==
    req.op \in {"tx", "api"} =>
        LET en == EnabledAtCall
            x == req.res.exit
        IN  /\ req.res.entered =>
                  /\ req.res.execs = tx_execs(en, req.stmts)
                  /\ ~req.body_raised =>
                        /\ x.commits = en
                        /\ x.committed =
                              {n \in Range(en) : req.out[n].at # "commit"}
                        /\ Range(x.rollbacks) = Range(en) \ x.committed
                  /\ req.body_raised =>
                        /\ x.commits = <<>> /\ x.committed = {}
                        /\ x.rollbacks = en
            /\ ~req.res.entered =>
                  /\ req.res.execs = <<>>
                  /\ x.commits = <<>> /\ x.committed = {}

\* A scope of two statements over two nodes whose body raised: both were
\* executed on both nodes and both nodes were rolled back.
C19_Witness ==
    /\ req.op = "tx" /\ req.res.entered /\ req.body_raised
    /\ Len(req.stmts) = 2 /\ Len(EnabledAtCall) = 2
    /\ Len(req.res.execs) = 4
    /\ req.res.exit.rollbacks = EnabledAtCall
    /\ req.res.exit.committed = {}

\* C20: when the commit of a node fails at the normal exit of a scope,
\* the Commands of the scope's statements are appended to that node's log,
\* the nodes before it stay committed and the commit is still called on
\* the nodes after it.
C20_CommitFailureJournaled ==
    (req.op \in {"tx", "api"} /\ req.res.entered /\ ~req.body_raised) =>
        \A i \in 1..Len(EnabledAtCall) :
            LET n == EnabledAtCall[i]
            IN  req.out[n].at = "commit" =>
                   /\ commands[n] = req.before[n] \o Supplied
                   /\ \A j \in 1..(i - 1) :
                         req.out[EnabledAtCall[j]].at # "commit"
                            => EnabledAtCall[j] \in req.res.exit.committed
                   /\ \A j \in (i + 1)..Len(EnabledAtCall) :
                         EnabledAtCall[j] \in Range(req.res.exit.commits)

\* ---------------------------------------------------------------------
NoneEnabled == \A n \in Nodes : ~nodes[n].enabled

\* C21: routing a read when no node is enabled fails and returns no node:
\* pick_node of each of the three strategies raises on an empty list, and
\* route_select raises when no node of the registry is enabled.
C21_NoEnabledNodesFails ==
    /\ (picked.op \in {"round_robin", "weighted_round_robin", "least_time"}
        /\ picked.list = <<>>)
           => picked.result = "RuntimeError"
    /\ (picked.op = "route_select" /\ NoneEnabled)
           => picked.result = "Exception"

\* A read was routed while every node was disabled, and it failed.
C21_Witness ==
    /\ NoneEnabled
    /\ picked.op = "route_select"
    /\ picked.result = "Exception"
\* C22: a write issued when every node is disabled fails (NoEnabledNodes
\* for the operation DML, the demo's 202 'queued' answer); it does not come
\* back as if it had been broadcast to an empty set of nodes.
C22_NoEnabledNodesWriteFails ==
    (IsWrite /\ EnabledAtCall = <<>>) => req.res.raised
\* C23: executing an Update whose set and where maps share a column fails
\* with InvalidCommand and sends no statement; no statement is executed in
\* which a placeholder that stands for two values is bound to one of them.
C23_OverlappingUpdateRejected ==
    (/\ req.op = "execute"
     /\ req.cmd.cls = "Update"
     /\ req.engine = "ok"
     /\ (DOMAIN req.cmd.set_values) \cap (DOMAIN req.cmd.where) # {})
        => (req.error = "InvalidCommand" /\ req.sent = <<>>)
Tags == {"SELECT", "DML", "DDL", "TX", "ADMIN", "PROCEDURE", "MERGE",
         "MULTI", "OTHER"}

\* C24: get_type gives every statement a tag, and two statements that are
\* equal after comment stripping, trimming and lowercasing get the same
\* tag, whatever comments and white space were put in or taken out.
C24_TagUnchangedByComments ==
    (req.op = "classified" /\ clean_sql(req.s) = clean_sql(req.t))
        => (/\ req.tag_s \in Tags
            /\ req.tag_t \in Tags
            /\ req.tag_s = req.tag_t)
\* C25: nodes are registered disabled, so a node is routable only after
\* the health checker has emitted UP for it and RecoveryManager has
\* replayed its log and enabled it.
C25_DisabledUntilRecovered ==
    \A n \in Nodes : nodes[n].enabled => recov[n] = "replayed"
RECURSIVE FirstOccurrences(_)
FirstOccurrences(seq) ==
    IF seq = <<>> THEN <<>>
    ELSE LET init == FirstOccurrences(SubSeq(seq, 1, Len(seq) - 1))
             last == seq[Len(seq)]
         IN  IF \E i \in 1..Len(init) : init[i] = last
             THEN init ELSE Append(init, last)

\* C27: notify calls update on every distinct registered observer exactly
\* once, in the order of first registration, however often add_observer
\* was called with the same observer; so the failover observer, registered
\* first, handles every event before the recovery observer.
C27_NotifyOnceInOrder ==
    req.op = "notify" => req.calls = FirstOccurrences(req.reg)

\* C28: an observer whose update fails does not throw into the event bus:
\* notify still calls every observer registered after it and returns
\* normally to its caller.
C28_ObserverFailureContained ==
    (req.op = "notify" /\ \E i \in 1..Len(observers) :
                             observers[i] \in req.failing)
        => (/\ ~req.raised
            /\ \A i \in 1..Len(observers) :
                  \E j \in 1..Len(req.calls) : req.calls[j] = observers[i])
\* C29: the persistence of the command log is atomic: at no moment, for a
\* concurrent reader or for a process that starts after a crash in the
\* middle of save, is the file anything but the complete previous or the
\* complete new sequence.
C29_SaveIsAtomic ==
    file[LogNode] \in {NoFile, save(logop.before), save(commands[LogNode])}
\* C30: every backend connection acquired for a write or a transaction
\* scope is released on every exit path: once the call has ended, normally
\* or with an error (a failure to connect to the k-th node while the scope
\* is opened included), no connection or transaction of it remains open.
C30_ConnectionsReleased ==
    IsWrite => req.res.open = {}
\* C31: a statement that is neither SELECT nor DML is sent to exactly one
\* node, the first enabled node in registry order, and to no other; when
\* no node is enabled it is executed nowhere and an empty result comes
\* back without error.
C31_OtherOnFirstEnabled ==
    req.op = "other" =>
        /\ req.qtype \in OtherTypes
        /\ IF EnabledAtCall = <<>>
           THEN req.calls = <<>> /\ req.ok /\ req.rows = "empty"
           ELSE /\ req.calls = <<EnabledAtCall[1]>>
                /\ req.out[EnabledAtCall[1]] = Ok
                      => (req.ok /\ req.rows = EnabledAtCall[1])

\* A DDL statement was run while db1 was disabled: db2 alone got it.
C31_Witness ==
    /\ req.op = "other"
    /\ req.qtype = "DDL"
    /\ ~req.nodes["db1"].enabled
    /\ req.calls = <<"db2">>
    /\ req.ok
\* C33: for every client write and every registered node, the node is
\* treated in exactly one way, executed live or journaled, never neither
\* and never both, however the write interleaves with the disabling and
\* enabling of the node between its two reads of the registry: once the
\* write has read both sets, every node is in exactly one of them.
C33_ExactlyOneTreatment ==
    wr.pc \in {"exec", "journal", "save"} =>
        \A n \in Nodes :
            (\E i \in 1..Len(wr.enabled_engines) : wr.enabled_engines[i] = n)
            # (\E i \in 1..Len(wr.disabled_nodes) : wr.disabled_nodes[i] = n)
\* The commands of the client writes.
WriteCmds == {ClientCommand(OpOf(k), k) : k \in 1..MaxWrites}

\* C32: every command present in a node's log is eventually executed
\* against the node once the node's probes succeed from some point on
\* (run_check called fairly), a command journaled between the end of a
\* replay and the enable that follows it included.
C32_LoggedEventuallyExecuted ==
    \A n \in Nodes : \A c \in WriteCmds :
        (<>[]up[n]) => [](InLog(c, commands[n]) => <>(c \in executed[n]))
\* C34: no client write is applied more than once to the same node: a
\* Command journaled for a node and executed there by a replay is not also
\* executed live on the node by the broadcast of the same request,
\* however the request interleaves with the node's recovery.
C34_NoDoubleApply ==
    wr.pc = "returned" => wr.twice = {}
\* C35: if a node's probes succeed from some point on (so that replaying
\* its log against it succeeds), the node is eventually enabled, run_check
\* being invoked fairly: also after a replay that failed on an earlier UP
\* transition, and after a synthetic DOWN event of POST /nodes/{name}/disable.
C35_RecoveredEventuallyEnabled ==
    \A n \in Nodes : [](([]up[n]) => <>(nodes[n].enabled))

\* C36: if a node's probes fail from some point on, the node is eventually
\* disabled and stays disabled from then on, run_check being invoked
\* fairly: also when POST /nodes/{name}/enable injects a synthetic UP event
\* while the node's log is empty.
C36_FailedEventuallyDisabled ==
    \A n \in Nodes : (<>[]~up[n]) => <>[]~(nodes[n].enabled)
\* C37: for each node, the statuses of the events emitted by successive
\* run_checks never repeat consecutively (no UP after UP, no DOWN after
\* DOWN), also when an observer's update raises during the notification.
C37_EventsAlternate ==
    req.op = "run_check" =>
        \A k \in 1..Len(req.events) :
            req.events[k].status # req.before[req.events[k].db]

\* C38: every run_check probes every configured node and updates its
\* last_status: a probe that fails with any kind of error counts as DOWN
\* for that node only, and neither it nor a failing observer keeps the
\* later nodes from being checked.
C38_EveryNodeChecked ==
    req.op = "run_check" =>
        /\ req.probed = Nodes
        /\ \A n \in Nodes :
              last_status[n] = IF req.probes[n] = "ok" THEN "UP" ELSE "DOWN"
\* The names the coming route_select calls return, one period of the cycle.
Upcoming(it) ==
    [k \in 1..Len(it.items) |->
        it.items[((it.pos + k - 1) % Len(it.items)) + 1]]

\* C40: an enable_node or disable_node call that changes no node's flag
\* leaves the registry unchanged, the position of the read rotation
\* included: the route_select calls that follow return the same sequence
\* of nodes as if the call had not been made.
C40_NoChangeKeepsRotation ==
    [][(picked' = NoPick /\ nodes' = nodes)
          => Upcoming(rr_iter') = Upcoming(rr_iter)]_vars
\* C39: a route_select that runs concurrently with disable_node,
\* enable_node or remove_node on another thread returns the engine of a
\* node that was a registered, enabled member at some moment during the
\* call, or fails with the no-enabled-nodes error; it never fails with
\* another error and never returns a node removed before the call began.
C39_RouteSelectUnderChange ==
    (req # NoReq /\ req.pc = "done") =>
        req.result = "Exception" \/ req.result \in req.members
====
